---- MODULE Spec2Model ----
(***************************************************************************)
(* Vote ingestion and tally reconciliation of the Radio Zimbabwe chatbot.  *)
(*                                                                         *)
(* The database tables are the variables rawVotes (RawVote), rawTally      *)
(* (RawSongTally), songs (CleanedSong), mapping (MatchKeyMapping),         *)
(* cleanedTally (CleanedSongTally) and decisionLog (LLMDecisionLog); the   *)
(* cache used by check_spam is spamCache.  Every inbound message is        *)
(* handled by a worker that walks through handle_incoming_text; what a     *)
(* worker holds in local variables is in wk.  The storage engine is        *)
(* modelled at READ COMMITTED: a statement sees what was committed before  *)
(* it, and the writes of an atomic block appear together at its commit.    *)
(*                                                                         *)
(* A grouping key is a number; the text "Artist - Song" whose              *)
(* normalisation is key k is <<"vote", k>>, and the canonical name a       *)
(* pending song gets from key k is the name k.  Keys 1 and 2 are spelling  *)
(* variants of one another (similarity above the thresholds), every other  *)
(* pair of keys is dissimilar.                                             *)
(***************************************************************************)
EXTENDS Integers, FiniteSets, Sequences, Bags, TLC

VARIABLES today, users, rawVotes, rawTally, spamCache, songs, mapping,
          cleanedTally, decisionLog, wk, reply, msgs, lookup, cl, mkRows,
          spamClock, content, handed, typed, artists, artistCache

vars == <<today, users, rawVotes, rawTally, spamCache, songs, mapping,
          cleanedTally, decisionLog, wk, reply, msgs, lookup, cl, mkRows,
          spamClock, content, handed, typed, artists, artistCache>>

voteVars == <<rawVotes, rawTally>>

songVars == <<songs, mapping, cleanedTally, decisionLog>>

----------------------------------------------------------------------------
(* Program constants *)

MAX_VOTES_PER_DAY == 5

SPAM_MAX_IDENTICAL == 3

SPAM_WINDOW_SECONDS == 60

(* the limits of validate_vote_content *)
MAX_EMOJIS == 2

MAX_LENGTH == 100

MAX_NEWLINES == 1

MAX_SENTENCE_ENDERS == 2

(* matching.py, the first two in hundredths, the others in units of 1/10000 *)
ARTIST_SIMILARITY_THRESHOLD == 88

SONG_SIMILARITY_THRESHOLD == 82

AUTO_MERGE_THRESHOLD == 9200

CONFIDENCE_GAP == 1000

(* Bounds of the model *)

MaxMessages == 3

MaxIngestMessages == 6

MaxRaceMessages == 4

MaxReviewMessages == 2

MaxGuardMessages == 5

(* Longest catalog of verified songs a lookup on its own is given *)
MaxCatalog == 2

(* Largest CleanedSongTally count a merge is followed up to *)
MaxTally == 3

MaxMatchMessages == 2

MaxLogRows == 2

(* messages in the run with the collaborator's request outstanding *)
MaxCallMessages == 3

(* the clock of the spam window: its resolution and the end of the run *)
SecondsPerTick == 15

MaxSeconds == 135

(* the most emoji, newlines and sentence enders in a text *)
MaxCount == 3

(* the largest limit of a batch job and the largest count of a raw tally  *)
(* waiting for it                                                          *)
MaxLimit == 2

MaxWaiting == 2

(* messages in the runs of the batch jobs *)
MaxSwitchMessages == 3

MaxStaleMessages == 2

(* the RawVote rows while the administrator corrects them, and the        *)
(* messages handled meanwhile                                              *)
MaxAdminVotes == 3

MaxAdminMessages == 1

(* the users voting on one day for spellings of one title *)
MaxVoters == 3

(* the rows of VerifiedArtist and the calls of match_verified_artist *)
MaxArtists == 2

MaxMatches == 2

(* the characters of an artist and a song typed together *)
MaxTyped == 4

(* the runs of characters of a message *)
MaxRuns == 4

Users == {<<"telegram", "r1">>, <<"whatsapp", "r1">>}

IngestUsers == {<<"telegram", "r1">>}

Workers == {"w1", "w2"}

Dates == {1, 2}

ReconKeys == {2, 3}

ReconUsers == {<<"telegram", "r1">>}

ReconWorkers == {"w1"}

IngestKeys == 3 .. (3 + MAX_VOTES_PER_DAY)

AllKeys == 1 .. (3 + MAX_VOTES_PER_DAY)

SongIds == 1 .. Cardinality(AllKeys)

VoteTexts(K) == {<<"vote", k>> : k \in K}

OtherTexts == {<<"start", 0>>, <<"url", 0>>, <<"noformat", 0>>}

----------------------------------------------------------------------------
(* Tables as partial functions *)

Has(f, x) == x \in DOMAIN f

Put(f, x, v) == [y \in DOMAIN f \cup {x} |-> IF y = x THEN v ELSE f[y]]

Drop(f, S) == [y \in DOMAIN f \ S |-> f[y]]

Empty == [x \in {} |-> 0]

RECURSIVE SumOver(_, _)
SumOver(f, S) ==
  IF S = {} THEN 0
  ELSE LET x == CHOOSE y \in S : TRUE IN f[x] + SumOver(f, S \ {x})

----------------------------------------------------------------------------
(* Text normalisation and key resolution *)

Similar(a, b) == a = b \/ {a, b} = {1, 2}

VerifiedIds(sg) == {s \in DOMAIN sg : sg[s].status = "verified"}

RejectedIds(sg) == {s \in DOMAIN sg : sg[s].status = "rejected"}

PendingIds(sg) == {s \in DOMAIN sg : sg[s].status = "pending"}

(* Scores are kept in units of 1/10000: a similarity of 0.95 is 95 as an   *)
(* input and the weighted score 0.4 * artist + 0.6 * title is               *)
(* 40 * artist + 60 * title.  A candidate is [artist, title, overlap]: the  *)
(* two combined_similarity values in hundredths and whether both token      *)
(* overlaps reach MIN_TOKEN_OVERLAP.                                        *)
Max(a, b) == IF a >= b THEN a ELSE b

Min(a, b) == IF a < b THEN a ELSE b

combined_score(c) ==
  LET weighted == 40 * c.artist + 60 * c.title
      boosted == IF c.overlap THEN Max(weighted, 50 * (c.artist + c.title)) ELSE weighted
      nearArtist == IF c.artist >= 95 /\ c.title >= 85 THEN Max(boosted, 9500) ELSE boosted
  IN  IF c.title >= 95 /\ c.artist >= 75 THEN Max(nearArtist, 9000) ELSE nearArtist

(* The safety check on the best and the second-best score *)
confident_threshold_only(best, second) == best >= AUTO_MERGE_THRESHOLD

confident(best, second) ==
  best >= AUTO_MERGE_THRESHOLD /\ best - second >= CONFIDENCE_GAP

(* scores is a function from the candidates to their scores, in the order   *)
(* of the list; the sort is stable, so the first of equal scores stays in   *)
(* front.  The result is the set holding the matched candidate, or {}.      *)
best_match(scores) ==
  IF DOMAIN scores = {} THEN {}
  ELSE LET best == CHOOSE s \in DOMAIN scores :
                     \A o \in DOMAIN scores :
                        scores[o] < scores[s] \/ (scores[o] = scores[s] /\ s <= o)
           rest == DOMAIN scores \ {best}
           second == IF rest = {} THEN 0
                     ELSE scores[CHOOSE s \in rest : \A o \in rest : scores[o] <= scores[s]]
       IN  IF confident(scores[best], second) THEN {best} ELSE {}

(* The candidate a verified song makes for key k: the same name, a spelling *)
(* variant of it, or something else *)
Candidate(k, n) ==
  IF k = n THEN [artist |-> 100, title |-> 100, overlap |-> TRUE]
  ELSE IF Similar(k, n) THEN [artist |-> 100, title |-> 95, overlap |-> TRUE]
  ELSE [artist |-> 40, title |-> 40, overlap |-> FALSE]

match_against_known_songs(k, sg) ==
  {sg[s].name : s \in best_match([s \in VerifiedIds(sg) |->
                                    combined_score(Candidate(k, sg[s].name))])}

normalize_vote_input(k, sg) ==
  LET known == match_against_known_songs(k, sg)
  IN  IF known # {} THEN CHOOSE n \in known : TRUE ELSE k

find_existing_song_match(k, d, rt) ==
  LET sim == {e \in AllKeys : Has(rt, <<d, e>>) /\ Similar(k, e)}
  IN  {e \in sim : \A f \in sim : rt[<<d, f>>] <= rt[<<d, e>>]}

smart_normalize_vote(k, d, sg, rt) ==
  LET nk == normalize_vote_input(k, sg)
      existing == find_existing_song_match(nk, d, rt)
  IN  IF existing # {} THEN existing ELSE {nk}

(* What validate_vote_content reads of a text: whether URL_PATTERN finds a  *)
(* match, the number of matches of EMOJI_PATTERN, the length, the number   *)
(* of newlines and the number of '.', '?' and '!'.                         *)
Plain == [url |-> FALSE, emojis |-> 0, length |-> 1, newlines |-> 0, enders |-> 0]

Contents ==
  [url : BOOLEAN, emojis : 0 .. MaxCount, length : {1, MAX_LENGTH, MAX_LENGTH + 1},
   newlines : 0 .. MaxCount, enders : 0 .. MaxCount]

(* the error message returned, "" for None *)
content_error(f) ==
  IF f.url THEN "links_not_allowed"
  ELSE IF f.emojis > MAX_EMOJIS THEN "too_many_emojis"
  ELSE IF f.length > MAX_LENGTH THEN "message_too_long"
  ELSE IF f.newlines > MAX_NEWLINES THEN "single_line_vote"
  ELSE IF f.enders > MAX_SENTENCE_ENDERS THEN "just_the_song_vote"
  ELSE ""

(* a text of the handler: a link, or a plain line *)
ContentOf(t) == IF t[1] = "url" THEN [Plain EXCEPT !.url = TRUE] ELSE Plain

validate_vote_content(t) == content_error(ContentOf(t)) = ""

parse_vote_input(t) == IF t[1] = "vote" THEN {t[2]} ELSE {}

----------------------------------------------------------------------------
(* services.parse_vote_input on texts spelled out as runs of characters: a *)
(* run is n characters of one kind, a word (neither whitespace nor '-'),    *)
(* whitespace or dashes, and no run is followed by a run of its kind.  The  *)
(* result is <<"none">>, <<"song_only", song>> or <<"pair", artist, song>>. *)
RunKinds == {"word", "space", "dash"}

RunLengths == {1, 2, 98, 100}

Runs == [kind : RunKinds, n : RunLengths]

Texts(m) ==
  UNION {{t \in [1 .. k -> Runs] : \A i \in 1 .. k - 1 : t[i].kind # t[i + 1].kind} :
           k \in 0 .. m}

RECURSIVE length(_)
length(t) == IF t = <<>> THEN 0 ELSE Head(t).n + length(Tail(t))

has_dash(t) == \E i \in 1 .. Len(t) : t[i].kind = "dash"

(* str.strip() *)
strip_runs(t) ==
  LET l == IF t # <<>> /\ Head(t).kind = "space" THEN Tail(t) ELSE t
  IN  IF l # <<>> /\ l[Len(l)].kind = "space" THEN SubSeq(l, 1, Len(l) - 1) ELSE l

(* the run holding the last dash of the text *)
last_dash(t) == CHOOSE i \in 1 .. Len(t) :
                  t[i].kind = "dash" /\ \A j \in i + 1 .. Len(t) : t[j].kind # "dash"

(* the run holding the first dash of the text *)
first_dash(t) == CHOOSE i \in 1 .. Len(t) :
                   t[i].kind = "dash" /\ \A j \in 1 .. i - 1 : t[j].kind # "dash"

(* SEPARATOR_PATTERN.split(text, maxsplit=1): the leftmost match of         *)
(* \s*-\s* takes the whitespace before the dash, one dash and the           *)
(* whitespace after it                                                      *)
separator_split(t) ==
  LET i == first_dash(t)
      before == SubSeq(t, 1, i - 1)
      after == SubSeq(t, i + 1, Len(t))
  IN  <<IF before # <<>> /\ before[Len(before)].kind = "space"
        THEN SubSeq(before, 1, Len(before) - 1) ELSE before,
        IF t[i].n > 1 THEN <<[kind |-> "dash", n |-> t[i].n - 1]>> \o after
        ELSE IF after # <<>> /\ Head(after).kind = "space" THEN Tail(after)
        ELSE after>>

parse_vote_input_text(t) ==
  IF ~has_dash(t)
  THEN LET cleaned == strip_runs(t)
       IN  IF length(cleaned) >= 3 /\ length(cleaned) <= 100
           THEN <<"song_only", cleaned>> ELSE <<"none">>
  ELSE LET parts == separator_split(t)
           artist == strip_runs(parts[1])
           song == strip_runs(parts[2])
       IN  IF length(artist) < 2 \/ length(song) < 2 THEN <<"none">>
           ELSE <<"pair", artist, song>>

----------------------------------------------------------------------------
(* models.normalize_text and create_match_key on texts spelled out: a text *)
(* is a sequence of characters, here a letter in its two cases and two      *)
(* kinds of whitespace                                                      *)
Whitespace == {" ", "tab"}

Letters == {"a", "A"}

Chars == Letters \cup Whitespace

Strings(n) == UNION {[1 .. k -> Chars] : k \in 0 .. n}

RECURSIVE lstrip(_)
lstrip(s) == IF s # <<>> /\ Head(s) \in Whitespace THEN lstrip(Tail(s)) ELSE s

RECURSIVE rstrip(_)
rstrip(s) ==
  IF s # <<>> /\ s[Len(s)] \in Whitespace THEN rstrip(SubSeq(s, 1, Len(s) - 1)) ELSE s

(* text.strip() *)
strip(s) == rstrip(lstrip(s))

(* the runs of whitespace left as they are *)
collapse_none(s) == s

(* re.sub(r'\s+', ' ', text) *)
RECURSIVE collapse(_)
collapse(s) ==
  IF s = <<>> THEN <<>>
  ELSE IF Head(s) \in Whitespace THEN <<" ">> \o collapse(lstrip(s))
  ELSE <<Head(s)>> \o collapse(Tail(s))

(* text.lower() *)
lower(s) == [i \in 1 .. Len(s) |-> IF s[i] = "A" THEN "a" ELSE s[i]]

normalize_text(s) == lower(collapse(strip(s)))

create_match_key(artist, song) == normalize_text(artist) \o <<":", ":">> \o normalize_text(song)

----------------------------------------------------------------------------
(* RawVote rows *)

VoteRow(u, d, k) == <<u, d, k>>

VotesOf(u, d) == {r \in BagToSet(rawVotes) : r[1] = u /\ r[2] = d}

todays_count(u, d) == SumOver(rawVotes, VotesOf(u, d))

VotesFor(d, k) == {r \in BagToSet(rawVotes) : r[2] = d /\ r[3] = k}

VoteCount(d, k) == SumOver(rawVotes, VotesFor(d, k))

----------------------------------------------------------------------------
(* Reconciliation: CleanedSongTally from RawSongTally and MatchKeyMapping *)

KeysOf(mp, s) == {k \in DOMAIN mp : mp[k] = s}

DateKeys(rt, d) == {k \in AllKeys : Has(rt, <<d, k>>)}

RawSum(rt, d, K) == SumOver([k \in K |-> rt[<<d, k>>]], K)

SongCounts(sg, mp, rt, d) ==
  LET counted == {s \in VerifiedIds(sg) : KeysOf(mp, s) \cap DateKeys(rt, d) # {}}
  IN  [s \in counted |-> RawSum(rt, d, KeysOf(mp, s) \cap DateKeys(rt, d))]

(* The rows written by adding the new count to the stored one *)
WriteCounts_add(ct, d, sc) ==
  [p \in DOMAIN ct \cup {<<s, d>> : s \in DOMAIN sc} |->
     IF p[2] = d /\ p[1] \in DOMAIN sc
     THEN (IF p \in DOMAIN ct THEN ct[p] ELSE 0) + sc[p[1]]
     ELSE ct[p]]

WriteCounts(ct, d, sc) ==
  [p \in DOMAIN ct \cup {<<s, d>> : s \in DOMAIN sc} |->
     IF p[2] = d /\ p[1] \in DOMAIN sc THEN sc[p[1]] ELSE ct[p]]

update_cleaned_tallies(ct, sg, mp, rt, d) == WriteCounts(ct, d, SongCounts(sg, mp, rt, d))

(* A reader that deletes the rows of the date once it has counted them *)
take_raw_tallies(rt, d) == Drop(rt, {p \in DOMAIN rt : p[1] = d})

(* RawSongTally.objects.filter(date=date), iterated: the table after the   *)
(* read                                                                    *)
read_raw_tallies(rt, d) == rt

----------------------------------------------------------------------------
(* The matching step: CleaningService.process_new_votes *)

FreeId(sg) == CHOOSE i \in SongIds \ DOMAIN sg : \A j \in SongIds \ DOMAIN sg : i <= j

(* canonical_name__iexact: a name n and -n are one text in two casings;    *)
(* the names the fallback builds are title-cased, written n > 0             *)
iexact(a, b) == a = b \/ a = -b

NamedIds(sg, n) == {s \in DOMAIN sg : iexact(sg[s].name, n)}

(* The fallback song entered as verified *)
create_verified_song(sg, n) ==
  IF NamedIds(sg, n) # {} THEN sg
  ELSE Put(sg, FreeId(sg), [name |-> n, status |-> "verified"])

create_pending_song(sg, n) ==
  IF NamedIds(sg, n) # {} THEN sg
  ELSE Put(sg, FreeId(sg), [name |-> n, status |-> "pending"])

PendingIdFor(sg, n) == CHOOSE s \in NamedIds(create_pending_song(sg, n), n) : TRUE

LogRow(k, action, confidence, matched) ==
  [input |-> k, itype |-> "raw_vote", action |-> action, confidence |-> confidence,
   matched |-> matched, applied |-> TRUE]

(* What the collaborator sends back for one item: a parsed answer, or a    *)
(* response that cannot be parsed, or a failed call.  The fields of an      *)
(* answer are not validated by the caller: the confidence may be the four   *)
(* tiers or JSON null, the id a song id, none (0) or a value that is not a  *)
(* number.                                                                  *)
Confidences == {"high", "medium", "low", "none"}

Null == "null"

NotANumber == -1

MaxAnswerId == 3

Answers ==
  [status : {"ok"}, matched : BOOLEAN, confidence : Confidences \cup {Null},
   id : {NotANumber} \cup 0 .. MaxAnswerId]

Failures ==
  {[status |-> f, matched |-> FALSE, confidence |-> "none", id |-> 0] :
     f \in {"malformed", "error"}}

Responses == Answers \cup Failures

(* One response for each effect a response can have: the two failures, an  *)
(* answer without id for each confidence, and confidence high with each id  *)
Replies ==
  Failures \cup
  {r \in Answers : /\ r.matched = (r.confidence = "high" /\ r.id # 0)
                   /\ r.id # 0 => r.confidence = "high"}

(* the decisive answers: "no match", and a song of the catalog named with  *)
(* confidence high *)
Declines == [status |-> "ok", matched |-> FALSE, confidence |-> "none", id |-> 0]

Names(s) == [status |-> "ok", matched |-> TRUE, confidence |-> "high", id |-> s]

Decisive == {Declines} \cup {Names(s) : s \in VerifiedIds(songs)}

NoMatch == [matched |-> FALSE, confidence |-> "none", id |-> 0]

(* CleaningService.match_vote_with_llm *)
match_vote_with_llm(catalog, r) ==
  IF catalog = {} \/ r \in Failures THEN NoMatch
  ELSE [matched |-> r.matched /\ r.confidence = "high",
        confidence |-> r.confidence, id |-> r.id]

(* the test that guards the auto-merge branch of _process_single_tally *)
links_on_any_match(res) == res.id # 0

links_on_match(res) == res.matched /\ res.id # 0

(* CleaningService._log_decision: a row the table cannot store (confidence *)
(* is NOT NULL) is dropped and the error logged *)
log_decision(log, row) == IF row.confidence = Null THEN log ELSE log \cup {row}

(* db is [songs, mapping, log, raised]; catalog is the list of verified    *)
(* songs read before the loop; r is the collaborator's response for the     *)
(* key.  An id that is not a number makes the lookup of the matched song    *)
(* raise ValueError, which nothing in _process_single_tally catches.        *)
process_single_tally(db, k, catalog, r) ==
  LET res == match_vote_with_llm(catalog, r)
      pending == [songs |-> create_pending_song(db.songs, k),
                  mapping |-> Put(db.mapping, k, PendingIdFor(db.songs, k)),
                  log |-> log_decision(db.log, LogRow(k, "new", res.confidence, 0)),
                  raised |-> FALSE]
  IN  IF ~links_on_match(res) THEN pending
      ELSE IF res.id = NotANumber
           THEN [songs |-> db.songs, mapping |-> db.mapping, log |-> db.log, raised |-> TRUE]
      ELSE IF res.id \in VerifiedIds(db.songs)
           THEN [songs |-> db.songs,
                 mapping |-> Put(db.mapping, k, res.id),
                 log |-> log_decision(db.log, LogRow(k, "auto_merge", "high", res.id)),
                 raised |-> FALSE]
      ELSE pending

(* the loop of process_new_votes over the unmapped keys; an exception ends *)
(* it *)
RECURSIVE ProcessTallies(_, _, _, _)
ProcessTallies(db, K, catalog, llm) ==
  IF K = {} \/ db.raised THEN db
  ELSE LET k == CHOOSE x \in K : \A y \in K : x <= y
       IN  ProcessTallies(process_single_tally(db, k, catalog, llm[k]),
                          K \ {k}, catalog, llm)

UnmappedKeys(d) == {k \in DateKeys(rawTally, d) : ~Has(mapping, k)}

(* the tables after process_new_votes(d); the recomputation is the last    *)
(* statement and is not reached when the loop raised *)
matching_outcome(d, llm) ==
  ProcessTallies([songs |-> songs, mapping |-> mapping, log |-> decisionLog,
                  raised |-> FALSE],
                 UnmappedKeys(d), VerifiedIds(songs), llm)

process_new_votes(d, llm) ==
  LET db == matching_outcome(d, llm)
  IN  /\ songs' = db.songs
      /\ mapping' = db.mapping
      /\ decisionLog' = db.log
      /\ cleanedTally' = IF db.raised THEN cleanedTally
                         ELSE update_cleaned_tallies(cleanedTally, db.songs, db.mapping,
                                                     rawTally, d)
      /\ rawTally' = read_raw_tallies(rawTally, d)

----------------------------------------------------------------------------
(* VotingService.handle_incoming_text, one worker per message *)

Idle ==
  [pc |-> "idle", user |-> <<"", "">>, text |-> <<"", 0>>, date |-> 0,
   count |-> 0, key |-> 0, tally |-> 0, counts |-> <<>>]

(* The text returned to the channel adapter: whom it answers, which of the *)
(* handler's messages it is, and the remaining-votes count it quotes.      *)
Reply(u, resp, remaining) == [user |-> u, resp |-> resp, remaining |-> remaining]

Return(w, u, resp, remaining) ==
  /\ wk' = [wk EXCEPT ![w] = Idle]
  /\ reply' = Reply(u, resp, remaining)

SpamKey(u, t) == <<u[2], t>>

spam_count(u, t) == IF Has(spamCache, SpamKey(u, t)) THEN spamCache[SpamKey(u, t)] ELSE 0

(* The ceiling test with the comparison off by one *)
ceiling_reached_above(n) == n > MAX_VOTES_PER_DAY

ceiling_reached(n) == n >= MAX_VOTES_PER_DAY

Begin(w, u, t) ==
  /\ wk[w].pc = "idle"
  /\ msgs' = msgs + 1
  /\ UNCHANGED <<typed, artists, artistCache, handed, spamClock, content, cl, mkRows, lookup, today, voteVars, spamCache, songVars>>
  /\ IF t[1] = "start"
     THEN /\ Return(w, u, "welcome", 0)
          /\ UNCHANGED users
     ELSE /\ users' = users \cup {u}
          /\ IF ceiling_reached(todays_count(u, today))
             THEN Return(w, u, "limit", 0)
             ELSE /\ wk' = [wk EXCEPT ![w] =
                              [Idle EXCEPT !.pc = "counted", !.user = u, !.text = t,
                                           !.date = today,
                                           !.count = todays_count(u, today)]]
                  /\ UNCHANGED reply

(* The duplicate query finding no row *)
already_voted_never(u, k, d) == FALSE

already_voted(u, k, d) == CopiesIn(VoteRow(u, d, k), rawVotes) > 0

Validate(w) ==
  LET me == wk[w] IN
  /\ me.pc = "counted"
  /\ UNCHANGED <<typed, artists, artistCache, handed, spamClock, content, cl, mkRows, lookup, today, users, voteVars, songVars, msgs>>
  /\ IF ~validate_vote_content(me.text)
     THEN /\ Return(w, me.user, "invalid_content", 0)
          /\ UNCHANGED spamCache
     ELSE IF spam_count(me.user, me.text) >= SPAM_MAX_IDENTICAL
     THEN /\ Return(w, me.user, "spam", 0)
          /\ UNCHANGED spamCache
     ELSE /\ spamCache' = Put(spamCache, SpamKey(me.user, me.text),
                              spam_count(me.user, me.text) + 1)
          /\ IF parse_vote_input(me.text) = {}
             THEN Return(w, me.user, "invalid_format", 0)
             ELSE \E k \in smart_normalize_vote(me.text[2], me.date, songs, rawTally) :
                    IF already_voted(me.user, k, me.date)
                    THEN Return(w, me.user, "already", 0)
                    ELSE /\ wk' = [wk EXCEPT ![w].pc = "ready", ![w].key = k]
                         /\ UNCHANGED reply

(* The atomic block up to the read of the tally row.  A worker that finds  *)
(* no row while another one has inserted it and not yet committed waits on *)
(* the unique index and then reads the committed row.                      *)
InsertPending(d, k) ==
  \E o \in Workers : wk[o].pc = "txn" /\ wk[o].date = d /\ wk[o].key = k

tally_read(d, k) == IF Has(rawTally, <<d, k>>) THEN rawTally[<<d, k>>] ELSE 0

TxnRead(w) ==
  LET me == wk[w] IN
  /\ me.pc = "ready"
  /\ Has(rawTally, <<me.date, me.key>>) \/ ~InsertPending(me.date, me.key)
  /\ wk' = [wk EXCEPT ![w].pc = "txn", ![w].tally = tally_read(me.date, me.key)]
  /\ UNCHANGED <<typed, artists, artistCache, handed, spamClock, content, cl, mkRows, lookup, today, users, voteVars, spamCache, songVars, reply, msgs>>

tally_save(n) == n + 1

Commit(w) ==
  LET me == wk[w] IN
  /\ me.pc = "txn"
  /\ rawVotes' = rawVotes (+) SetToBag({VoteRow(me.user, me.date, me.key)})
  /\ rawTally' = Put(rawTally, <<me.date, me.key>>, tally_save(me.tally))
  /\ wk' = [wk EXCEPT ![w].pc = "stored"]
  /\ UNCHANGED <<typed, artists, artistCache, handed, spamClock, content, cl, mkRows, lookup, today, users, spamCache, songVars, reply, msgs>>

(* The confirmation with the failure of the matching step passed on to the *)
(* user *)
vote_reply_unless_raised(raised) == IF raised THEN "error" ELSE "recorded"

(* _process_vote_async logs whatever process_new_votes raises *)
vote_reply(raised) == "recorded"

(* The matching step and the confirmation built after it; R is the set of  *)
(* responses the collaborator may give                                     *)
MatchAndReply(w, R) ==
  LET me == wk[w] IN
  /\ \E llm \in [UnmappedKeys(me.date) -> R] :
       /\ process_new_votes(me.date, llm)
       /\ Return(w, me.user, vote_reply(matching_outcome(me.date, llm).raised),
                 MAX_VOTES_PER_DAY - (me.count + 1))
  /\ UNCHANGED <<typed, artists, artistCache, handed, spamClock, content, cl, mkRows, lookup, today, users, rawVotes, spamCache, msgs>>

ProcessWith(w, R) == wk[w].pc = "stored" /\ MatchAndReply(w, R)

Process(w) == ProcessWith(w, Decisive)

(* The same stretch of the handler with the request to the collaborator as *)
(* a step of its own.  process_new_votes reaches call_openai_api when a    *)
(* key of the date has no mapping and the catalog holds a verified song;   *)
(* requests.post then blocks the handler until the answer, an error or the *)
(* timeout.                                                                *)
calls_collaborator(d) == UnmappedKeys(d) # {} /\ VerifiedIds(songs) # {}

CallCollaborator(w) ==
  /\ wk[w].pc = "stored"
  /\ calls_collaborator(wk[w].date)
  /\ wk' = [wk EXCEPT ![w].pc = "calling"]
  /\ UNCHANGED <<typed, artists, artistCache, handed, spamClock, content, cl, mkRows, lookup, today, users, voteVars, spamCache, songVars, reply, msgs>>

(* the answer, or the failure that the timeout or the transport raises *)
CollaboratorReturns(w, R) == wk[w].pc = "calling" /\ MatchAndReply(w, R)

(* nothing to ask: every key is mapped, or there is no verified song *)
ProcessLocally(w) ==
  /\ wk[w].pc = "stored"
  /\ ~calls_collaborator(wk[w].date)
  /\ MatchAndReply(w, Failures)

(* The same stretch with _update_cleaned_tallies in its two parts: the     *)
(* mappings and the raw tallies of the date are read and summed per song    *)
(* (after the matching loop), and the sums are written later in a           *)
(* transaction of their own.  Handlers of other messages run in between.    *)
ProcessAndCount(w, R) ==
  LET me == wk[w] IN
  /\ me.pc = "stored"
  /\ \E llm \in [UnmappedKeys(me.date) -> R] :
       LET db == matching_outcome(me.date, llm) IN
       /\ songs' = db.songs
       /\ mapping' = db.mapping
       /\ decisionLog' = db.log
       /\ IF db.raised
          THEN Return(w, me.user, vote_reply(TRUE), MAX_VOTES_PER_DAY - (me.count + 1))
          ELSE /\ wk' = [wk EXCEPT ![w].pc = "counted_songs",
                                   ![w].counts = SongCounts(db.songs, db.mapping, rawTally,
                                                            me.date)]
               /\ UNCHANGED reply
  /\ UNCHANGED <<typed, artists, artistCache, handed, spamClock, content, cl, mkRows, lookup, today, users, voteVars, spamCache, cleanedTally, msgs>>

WriteAndReply(w) ==
  LET me == wk[w] IN
  /\ me.pc = "counted_songs"
  /\ cleanedTally' = WriteCounts(cleanedTally, me.date, me.counts)
  /\ Return(w, me.user, vote_reply(FALSE), MAX_VOTES_PER_DAY - (me.count + 1))
  /\ UNCHANGED <<typed, artists, artistCache, handed, spamClock, content, cl, mkRows, lookup, today, users, voteVars, spamCache, songs, mapping, decisionLog, msgs>>

NextDay ==
  /\ today + 1 \in Dates
  /\ today' = today + 1
  /\ UNCHANGED <<typed, artists, artistCache, handed, spamClock, content, cl, mkRows, lookup, users, voteVars, spamCache, songVars, wk, reply, msgs>>

SpamExpire(sk) ==
  /\ Has(spamCache, sk)
  /\ spamCache' = Drop(spamCache, {sk})
  /\ UNCHANGED <<typed, artists, artistCache, handed, spamClock, content, cl, mkRows, lookup, today, users, voteVars, songVars, wk, reply, msgs>>

----------------------------------------------------------------------------
(* check_spam on its own, with the timeouts of the cache entries.         *)
(* spamClock holds the time in seconds, the time at which each entry runs  *)
(* out, the messages checked so far as <<cache key, time>> and the last    *)
(* check with its verdict.                                                 *)
NoSpamKey == <<"", <<"", 0>>>>

NoClock ==
  [now |-> 0, expires |-> Empty, sent |-> {},
   last |-> [key |-> NoSpamKey, at |-> 0, spam |-> FALSE]]

(* cache.get(cache_key, 0): an entry whose timeout has run out is gone *)
cache_get(sk) ==
  IF Has(spamCache, sk) /\ spamClock.expires[sk] > spamClock.now
  THEN spamCache[sk] ELSE 0

(* cache.set(cache_key, count + 1, SPAM_WINDOW_SECONDS) *)
cache_set_expiry(exp, sk, now) == Put(exp, sk, now + SPAM_WINDOW_SECONDS)

CheckSpam(u, t) ==
  LET sk == SpamKey(u, t)
      now == spamClock.now
      count == cache_get(sk)
      is_spam == count >= SPAM_MAX_IDENTICAL
  IN  /\ <<sk, now>> \notin spamClock.sent
      /\ spamCache' = IF is_spam THEN spamCache ELSE Put(spamCache, sk, count + 1)
      /\ spamClock' =
           [spamClock EXCEPT
              !.expires = IF is_spam THEN @ ELSE cache_set_expiry(@, sk, now),
              !.sent = @ \cup {<<sk, now>>},
              !.last = [key |-> sk, at |-> now, spam |-> is_spam]]
      /\ UNCHANGED <<typed, artists, artistCache, handed, content, cl, mkRows, lookup, today, users, voteVars, songVars, wk, reply, msgs>>

Tick ==
  /\ spamClock.now + SecondsPerTick <= MaxSeconds
  /\ spamClock' = [spamClock EXCEPT !.now = @ + SecondsPerTick]
  /\ UNCHANGED <<typed, artists, artistCache, handed, content, cl, mkRows, lookup, today, users, voteVars, spamCache, songVars, wk, reply, msgs>>

----------------------------------------------------------------------------
(* validate_vote_content on its own.  A text is given by what the function *)
(* reads of it.                                                            *)
(* no text under study; the table VerifiedArtist is empty and               *)
(* get_verified_artists_cache has not been called                          *)
NoText == [artist |-> <<>>, song |-> <<>>]

NoCache == [filled |-> FALSE, names |-> <<>>]

NoContent == [text |-> Plain, asked |-> FALSE, verdict |-> ""]

(* no batch job called yet *)
NoBatch == [limit |-> 0, keys |-> {}, songs |-> {}, answers |-> <<>>, reviews |-> <<>>]

ValidateContent ==
  /\ ~content.asked
  /\ content' = [content EXCEPT !.asked = TRUE, !.verdict = content_error(content.text)]
  /\ UNCHANGED <<typed, artists, artistCache, handed, spamClock, cl, mkRows, lookup, today, users, voteVars, spamCache, songVars, wk, reply, msgs>>

----------------------------------------------------------------------------
(* Recomputation entry points *)

(* charts.tasks.compute_daily_chart *)
ComputeDailyChart(d) ==
  /\ cleanedTally' = update_cleaned_tallies(cleanedTally, songs, mapping, rawTally, d)
  /\ rawTally' = read_raw_tallies(rawTally, d)
  /\ UNCHANGED <<typed, artists, artistCache, handed, spamClock, content, cl, mkRows, lookup, today, users, rawVotes, spamCache, songs, mapping, decisionLog, wk, reply, msgs>>

(* process_votes command and admin view: CleaningService.process_new_votes *)
ProcessNewVotesWith(d, R) ==
  /\ \E llm \in [UnmappedKeys(d) -> R] : process_new_votes(d, llm)
  /\ UNCHANGED <<typed, artists, artistCache, handed, spamClock, content, cl, mkRows, lookup, today, users, rawVotes, spamCache, wk, reply, msgs>>

ProcessNewVotes(d) == ProcessNewVotesWith(d, Decisive)

(* llm_matcher.create_match_mapping: one mapping row per key, re-pointed    *)
(* when it exists *)
create_match_mapping(mp, k, s) == Put(mp, k, s)

(* llm_matcher.match_votes_with_llm for one item: no result when the       *)
(* response cannot be used *)
match_votes_with_llm(r) ==
  IF r \in Failures \/ r.confidence = Null THEN {}
  ELSE LET matched_id == IF r.id = NotANumber THEN 0 ELSE r.id
       IN  {[confidence |-> r.confidence, id |-> matched_id,
             should_auto_link |-> r.confidence = "high" /\ matched_id # 0]}

(* the mapping after the results of a call were applied to key k; naming a *)
(* song row that does not exist fails on the foreign key and is caught     *)
auto_link(mp, sg, k, r) ==
  IF \E res \in match_votes_with_llm(r) : res.should_auto_link /\ res.id \in DOMAIN sg
  THEN create_match_mapping(mp, k, r.id)
  ELSE mp

(* RawSongTallyAdmin.llm_match_selected on the tally rows of key k *)
LLMMatchSelectedWith(k, r) ==
  /\ VerifiedIds(songs) # {}
  /\ \E d \in Dates : Has(rawTally, <<d, k>>)
  /\ mapping' = auto_link(mapping, songs, k, r)
  /\ UNCHANGED <<typed, artists, artistCache, handed, spamClock, content, cl, mkRows, lookup, today, users, voteVars, spamCache, songs, cleanedTally, decisionLog, wk,
                 reply, msgs>>

(* the collaborator naming song s with confidence high *)
LLMMatchSelected(k, s) == s \in DOMAIN songs /\ LLMMatchSelectedWith(k, Names(s))

(* llm_matcher.process_unmatched_votes(date) for the unmatched key k of d: *)
(* the tallies are recomputed only when something was linked *)
ProcessUnmatchedVotesWith(d, k, r) ==
  /\ VerifiedIds(songs) # {}
  /\ k \in UnmappedKeys(d)
  /\ mapping' = auto_link(mapping, songs, k, r)
  /\ cleanedTally' = IF mapping' = mapping THEN cleanedTally
                     ELSE update_cleaned_tallies(cleanedTally, songs, mapping', rawTally, d)
  /\ rawTally' = IF mapping' = mapping THEN rawTally ELSE read_raw_tallies(rawTally, d)
  /\ UNCHANGED <<typed, artists, artistCache, handed, spamClock, content, cl, mkRows, lookup, today, users, rawVotes, spamCache, songs, decisionLog, wk, reply, msgs>>

ProcessUnmatchedVotes(d, k, s) == s \in DOMAIN songs /\ ProcessUnmatchedVotesWith(d, k, Names(s))

----------------------------------------------------------------------------
(* Status changes *)

SetStatus(sg, s, st) == [sg EXCEPT ![s].status = st]

(* CleanedSongAdmin._update_tallies: every date, whatever the status *)
admin_update_tallies(ct, mp, rt, s) ==
  LET K == KeysOf(mp, s)
      D == {d \in Dates : K \cap DateKeys(rt, d) # {}}
  IN  [p \in DOMAIN ct \cup {<<s, d>> : d \in D} |->
         IF p[1] = s /\ p[2] \in D THEN RawSum(rt, p[2], K \cap DateKeys(rt, p[2]))
         ELSE ct[p]]

(* CleaningService.verify_song, CleanedSongAdmin.verify_all_pending_view *)
VerifySong(s) ==
  /\ s \in DOMAIN songs
  /\ songs' = SetStatus(songs, s, "verified")
  /\ UNCHANGED <<typed, artists, artistCache, handed, spamClock, content, cl, mkRows, lookup, today, users, voteVars, spamCache, mapping, cleanedTally, decisionLog, wk,
                 reply, msgs>>

(* CleanedSongAdmin.verify_songs *)
AdminVerifySongs(s) ==
  /\ s \in DOMAIN songs
  /\ songs' = SetStatus(songs, s, "verified")
  /\ cleanedTally' = admin_update_tallies(cleanedTally, mapping, rawTally, s)
  /\ UNCHANGED <<typed, artists, artistCache, handed, spamClock, content, cl, mkRows, lookup, today, users, voteVars, spamCache, mapping, decisionLog, wk, reply, msgs>>

(* CleaningService.reject_song, CleanedSongAdmin.reject_songs *)
reject_song(sg, s) == SetStatus(sg, s, "rejected")

RejectSong(s) ==
  /\ s \in DOMAIN songs
  /\ songs' = reject_song(songs, s)
  /\ UNCHANGED <<typed, artists, artistCache, handed, spamClock, content, cl, mkRows, lookup, today, users, voteVars, spamCache, mapping, cleanedTally, decisionLog, wk,
                 reply, msgs>>

(* CleanedSongAdmin.mark_pending *)
MarkPending(s) ==
  /\ s \in DOMAIN songs
  /\ songs' = SetStatus(songs, s, "pending")
  /\ UNCHANGED <<typed, artists, artistCache, handed, spamClock, content, cl, mkRows, lookup, today, users, voteVars, spamCache, mapping, cleanedTally, decisionLog, wk,
                 reply, msgs>>

----------------------------------------------------------------------------
(* Merges.  A merge works on [songs, mapping, tally, log] and returns it. *)

DB == [songs |-> songs, mapping |-> mapping, tally |-> cleanedTally, log |-> decisionLog]

SetDB(db) ==
  /\ \A p \in DOMAIN db.tally : db.tally[p] <= MaxTally
  /\ songs' = db.songs
  /\ mapping' = db.mapping
  /\ cleanedTally' = db.tally
  /\ decisionLog' = db.log

(* The mappings of the source left where they are *)
MoveMappings_none(mp, a, b) == mp

MoveMappings(mp, a, b) == [k \in DOMAIN mp |-> IF mp[k] = a THEN b ELSE mp[k]]

TallyDates(ct, s) == {d \in Dates : Has(ct, <<s, d>>)}

CountOf(ct, s, d) == IF Has(ct, <<s, d>>) THEN ct[<<s, d>>] ELSE 0

(* get_or_create the target's row, add the source's count, drop the source's row *)
MoveTallies(ct, a, b) ==
  LET D == TallyDates(ct, a)
      dom == (DOMAIN ct \cup {<<b, d>> : d \in D}) \ {<<a, d>> : d \in D}
  IN  [p \in dom |-> IF p[1] = b /\ p[2] \in D
                     THEN CountOf(ct, b, p[2]) + ct[<<a, p[2]>>]
                     ELSE ct[p]]

(* source.delete(): the song, and by the foreign keys its mappings and      *)
(* tallies (CASCADE) and the log rows naming it (SET_NULL) *)
DeleteSong(db, a) ==
  [songs |-> Drop(db.songs, {a}),
   mapping |-> Drop(db.mapping, KeysOf(db.mapping, a)),
   tally |-> Drop(db.tally, {p \in DOMAIN db.tally : p[1] = a}),
   log |-> {IF r.matched = a THEN [r EXCEPT !.matched = 0] ELSE r : r \in db.log}]

merge_songs(db, a, b) ==
  DeleteSong([db EXCEPT !.mapping = MoveMappings(db.mapping, a, b),
                        !.tally = MoveTallies(db.tally, a, b)], a)

MergeSongs(a, b) ==
  /\ a \in DOMAIN songs /\ b \in DOMAIN songs
  /\ SetDB(merge_songs(DB, a, b))
  /\ UNCHANGED <<typed, artists, artistCache, handed, spamClock, content, cl, mkRows, lookup, today, users, voteVars, spamCache, wk, reply, msgs>>

(* CleanedSongAdmin.save_model of song a renamed to the name of another     *)
(* song b: _merge_into_existing *)
merge_into_existing(db, rt, a, b) ==
  LET m == merge_songs(db, a, b)
  IN  [m EXCEPT !.tally = admin_update_tallies(m.tally, m.mapping, rt, b)]

AdminMergeIntoExisting(a, b) ==
  /\ a \in DOMAIN songs /\ b \in DOMAIN songs /\ a # b
  /\ SetDB(merge_into_existing(DB, rawTally, a, b))
  /\ UNCHANGED <<typed, artists, artistCache, handed, spamClock, content, cl, mkRows, lookup, today, users, voteVars, spamCache, wk, reply, msgs>>

(* llm_matcher.merge_pending_to_verified *)
merge_pending_to_verified(db, p, v) ==
  LET moved == MoveMappings(db.mapping, p, v)
      own == db.songs[p].name
      withOwn == IF Has(moved, own) THEN moved ELSE Put(moved, own, v)
  IN  DeleteSong([db EXCEPT !.mapping = withOwn], p)

ReviewRow(n, action, confidence, matched, applied) ==
  [input |-> n, itype |-> "pending_song", action |-> action, confidence |-> confidence,
   matched |-> matched, applied |-> applied]

AddLog(db, row) == [db EXCEPT !.log = db.log \cup {row}]

(* llm_matcher.process_pending_songs, the result for one pending song p:    *)
(* action "match" towards song v (0 for none) with a confidence, "reject"   *)
(* or "new" *)
merges_on_any_confidence(confidence, v) == v # 0

merges_on(confidence, v) == confidence \in {"high", "medium"} /\ v # 0

apply_pending_result(db, p, action, v, confidence) ==
  LET n == db.songs[p].name IN
  CASE action = "match" /\ merges_on(confidence, v) /\ v \in DOMAIN db.songs ->
         AddLog(merge_pending_to_verified(db, p, v),
                ReviewRow(n, "auto_merge", confidence, IF v = p THEN 0 ELSE v, TRUE))
    [] action = "match" /\ ~(merges_on(confidence, v) /\ v \in DOMAIN db.songs) ->
         AddLog(db, ReviewRow(n, "match", confidence, IF v \in DOMAIN db.songs THEN v ELSE 0,
                              FALSE))
    [] action = "reject" ->
         AddLog([db EXCEPT !.songs = reject_song(db.songs, p)],
                ReviewRow(n, "auto_reject", confidence, 0, TRUE))
    [] OTHER ->
         AddLog([db EXCEPT !.songs = SetStatus(db.songs, p, "verified")],
                ReviewRow(n, "new", confidence, 0, TRUE))

ReviewPending(p, action, v, confidence) ==
  /\ VerifiedIds(songs) # {}
  /\ p \in DOMAIN songs /\ songs[p].status = "pending"
  /\ SetDB(apply_pending_result(DB, p, action, v, confidence))
  /\ UNCHANGED <<typed, artists, artistCache, handed, spamClock, content, cl, mkRows, lookup, today, users, voteVars, spamCache, wk, reply, msgs>>

(* What the collaborator sends back for one pending song *)
PendingAnswers ==
  [status : {"ok"}, action : {"match", "reject", "new"}, confidence : Confidences,
   id : 0 .. MaxAnswerId]

PendingFailures ==
  {[status |-> f, action |-> "new", confidence |-> "none", id |-> 0] :
     f \in {"malformed", "error"}}

(* llm_matcher.match_pending_songs_with_llm for one item: no result when   *)
(* the response cannot be used *)
match_pending_songs_with_llm(r) ==
  IF r \in PendingFailures THEN {}
  ELSE {[action |-> r.action, confidence |-> r.confidence, id |-> r.id]}

(* process_pending_songs for the pending song p and the response r *)
ReviewPendingWith(p, r) ==
  /\ VerifiedIds(songs) # {}
  /\ p \in DOMAIN songs /\ songs[p].status = "pending"
  /\ IF match_pending_songs_with_llm(r) = {}
     THEN UNCHANGED songVars
     ELSE \E res \in match_pending_songs_with_llm(r) :
             SetDB(apply_pending_result(DB, p, res.action, res.id, res.confidence))
  /\ UNCHANGED <<typed, artists, artistCache, handed, spamClock, content, cl, mkRows, lookup, today, users, voteVars, spamCache, wk, reply, msgs>>

----------------------------------------------------------------------------
(* Two resolutions of keys running at the same time, statement by          *)
(* statement: the pending fallback of CleaningService._process_single_tally *)
(* and the auto-link of llm_matcher.create_match_mapping.  Every statement  *)
(* is its own transaction.  mkRows is the MatchKeyMapping table row by row, *)
(* [id, key, song]; cl is where each resolution stands.                     *)
Cleaners == {"c1", "c2"}

IdleCleaner == [pc |-> "idle", key |-> 0, song |-> 0, by |-> ""]

RowsOf(rows, k) == {row \in rows : row.key = k}

ExactIds(sg, n) == {s \in DOMAIN sg : sg[s].name = n}

(* .first() under Meta.ordering (artist, title): equal texts tie, the       *)
(* earliest row stands for whichever the database returns                   *)
First(S) == CHOOSE s \in S : \A t \in S : s <= t

(* process_new_votes reaching the unmapped key k with no confident match *)
FallbackStart(c, k) ==
  /\ cl[c].pc \in {"idle", "done"}
  /\ \E d \in Dates : Has(rawTally, <<d, k>>)
  /\ RowsOf(mkRows, k) = {}
  /\ cl' = [cl EXCEPT ![c] = [pc |-> "precheck", key |-> k, song |-> 0, by |-> "fallback"]]
  /\ UNCHANGED <<typed, artists, artistCache, handed, spamClock, content, today, users, voteVars, spamCache, songVars, wk, reply, msgs, lookup, mkRows>>

(* _create_pending_song: the case-insensitive lookup before the insert *)
PendingPrecheck(c) ==
  LET me == cl[c]
      existing == NamedIds(songs, me.key) IN
  /\ me.pc = "precheck"
  /\ cl' = [cl EXCEPT ![c] = IF existing # {}
                              THEN [me EXCEPT !.pc = "map", !.song = First(existing)]
                              ELSE [me EXCEPT !.pc = "create"]]
  /\ UNCHANGED <<typed, artists, artistCache, handed, spamClock, content, today, users, voteVars, spamCache, songVars, wk, reply, msgs, lookup, mkRows>>

(* unique_together (station, canonical_name) *)
name_is_free_always(sg, n) == TRUE

name_is_free(sg, n) == ExactIds(sg, n) = {}

(* _create_pending_song: the insert, and the re-fetch after IntegrityError; *)
(* a re-fetch that finds nothing re-raises and ends the resolution          *)
PendingCreate(c) ==
  LET me == cl[c] IN
  /\ me.pc = "create"
  /\ IF name_is_free(songs, me.key)
     THEN /\ songs' = Put(songs, FreeId(songs), [name |-> me.key, status |-> "pending"])
          /\ cl' = [cl EXCEPT ![c] = [me EXCEPT !.pc = "map", !.song = FreeId(songs)]]
     ELSE /\ songs' = songs
          /\ cl' = [cl EXCEPT ![c] = [me EXCEPT !.pc = "map",
                                                !.song = First(NamedIds(songs, me.key))]]
  /\ UNCHANGED <<typed, artists, artistCache, handed, spamClock, content, today, users, voteVars, spamCache, mapping, cleanedTally, decisionLog, wk,
                 reply, msgs, lookup, mkRows>>

(* create_match_mapping(k, s) called for a result that names song s *)
LinkStart(c, k, s) ==
  /\ cl[c].pc \in {"idle", "done"}
  /\ \E d \in Dates : Has(rawTally, <<d, k>>)
  /\ s \in DOMAIN songs
  /\ cl' = [cl EXCEPT ![c] = [pc |-> "map", key |-> k, song |-> s, by |-> "link"]]
  /\ UNCHANGED <<typed, artists, artistCache, handed, spamClock, content, today, users, voteVars, spamCache, songVars, wk, reply, msgs, lookup, mkRows>>

Repoint(rows, k, s) == {IF row.key = k THEN [row EXCEPT !.song = s] ELSE row : row \in rows}

(* update_or_create / get_or_create: the lookup by match_key; a row found  *)
(* is re-pointed *)
MappingGet(c) ==
  LET me == cl[c] IN
  /\ me.pc = "map"
  /\ IF RowsOf(mkRows, me.key) # {}
     THEN /\ mkRows' = Repoint(mkRows, me.key, me.song)
          /\ cl' = [cl EXCEPT ![c].pc = "done"]
     ELSE /\ mkRows' = mkRows
          /\ cl' = [cl EXCEPT ![c].pc = "insert"]
  /\ UNCHANGED <<typed, artists, artistCache, handed, spamClock, content, today, users, voteVars, spamCache, songVars, wk, reply, msgs, lookup>>

(* unique_together (station, match_key) *)
key_is_free_always(rows, k) == TRUE

key_is_free(rows, k) == RowsOf(rows, k) = {}

(* the insert after a lookup that found nothing; on IntegrityError the row *)
(* that won is fetched and re-pointed *)
MappingInsert(c) ==
  LET me == cl[c] IN
  /\ me.pc = "insert"
  /\ mkRows' = IF key_is_free(mkRows, me.key)
               THEN mkRows \cup {[id |-> Cardinality(mkRows) + 1, key |-> me.key,
                                  song |-> me.song]}
               ELSE Repoint(mkRows, me.key, me.song)
  /\ cl' = [cl EXCEPT ![c].pc = "done"]
  /\ UNCHANGED <<typed, artists, artistCache, handed, spamClock, content, today, users, voteVars, spamCache, songVars, wk, reply, msgs, lookup>>

----------------------------------------------------------------------------
(* A call of match_against_known_songs on its own: the candidates the     *)
(* verified songs make for the input, and what the call returned            *)
NoLookup == [catalog |-> <<>>, asked |-> FALSE, result |-> {}]

(* the handler's tables and workers *)
InitHandler ==
  /\ today = 1
  /\ users = {}
  /\ rawVotes = EmptyBag
  /\ spamCache = Empty
  /\ mapping = Empty
  /\ cleanedTally = Empty
  /\ decisionLog = {}
  /\ wk = [w \in Workers |-> Idle]
  /\ reply = Reply(<<"", "">>, "", 0)
  /\ msgs = 0
  /\ cl = [c \in Cleaners |-> IdleCleaner]
  /\ mkRows = {}

(* everything but the songs and the raw tallies *)
InitText == typed = NoText /\ artists = {} /\ artistCache = NoCache

InitOther ==
  /\ InitHandler /\ spamClock = NoClock /\ content = NoContent /\ handed = NoBatch
  /\ InitText

InitTables == InitOther /\ rawTally = Empty /\ songs = Empty

Init == InitTables /\ lookup = NoLookup

(* The keys of IngestKeys are pairwise dissimilar and interchangeable: a    *)
(* message names a key that some earlier message named, or the least key    *)
(* that none has named yet.                                                 *)
Named(k) ==
  \/ \E d \in Dates : Has(rawTally, <<d, k>>)
  \/ \E sk \in DOMAIN spamCache : sk[2] = <<"vote", k>>
  \/ \E w \in Workers : wk[w].text = <<"vote", k>>

NextKeys == {k \in IngestKeys : \A j \in IngestKeys : j < k => Named(j)}

IngestNext ==
  \/ /\ msgs < MaxIngestMessages
     /\ \E w \in Workers, u \in IngestUsers, t \in VoteTexts(NextKeys) : Begin(w, u, t)
  \/ \E w \in Workers : Validate(w)
  \/ \E w \in Workers : TxnRead(w)
  \/ \E w \in Workers : Commit(w)
  \/ \E w \in Workers : Process(w)

SpecIngest == Init /\ [][IngestNext]_vars

Next ==
  \/ /\ msgs < MaxMessages
     /\ \E w \in ReconWorkers, u \in ReconUsers, t \in VoteTexts(ReconKeys) : Begin(w, u, t)
  \/ \E w \in ReconWorkers : Validate(w)
  \/ \E w \in ReconWorkers : TxnRead(w)
  \/ \E w \in ReconWorkers : Commit(w)
  \/ \E w \in ReconWorkers : Process(w)
  \/ \E d \in Dates : ComputeDailyChart(d)
  \/ \E d \in Dates : ProcessNewVotes(d)
  \/ \E k \in ReconKeys, s \in SongIds : LLMMatchSelected(k, s)
  \/ \E d \in Dates, k \in ReconKeys, s \in SongIds : ProcessUnmatchedVotes(d, k, s)
  \/ \E s \in SongIds : VerifySong(s)
  \/ \E s \in SongIds : AdminVerifySongs(s)
  \/ \E s \in SongIds : RejectSong(s)
  \/ \E s \in SongIds : MarkPending(s)
  \/ \E a \in SongIds, b \in SongIds : MergeSongs(a, b)
  \/ \E a \in SongIds, b \in SongIds : AdminMergeIntoExisting(a, b)

Spec == Init /\ [][Next]_vars

(* Two users and two workers on the spelling variants 1 and 2, over two days *)
RaceKeys == {1, 2}

RaceNext ==
  \/ /\ msgs < MaxRaceMessages
     /\ \E w \in Workers, u \in Users, t \in VoteTexts(RaceKeys) : Begin(w, u, t)
  \/ \E w \in Workers : Validate(w)
  \/ \E w \in Workers : TxnRead(w)
  \/ \E w \in Workers : Commit(w)
  \/ \E w \in Workers : Process(w)
  \/ NextDay

SpecRace == Init /\ [][RaceNext]_vars

(* match_against_known_songs on its own, for every catalog of up to        *)
(* MaxCatalog candidates *)
ScoreValues == {70, 85, 95, 100}

Candidates == [artist : ScoreValues, title : ScoreValues, overlap : BOOLEAN]

Catalogs == UNION {[1 .. n -> Candidates] : n \in 0 .. MaxCatalog}

CatalogScores(c) == [i \in DOMAIN c |-> combined_score(c[i])]

LookupKnownSong ==
  /\ ~lookup.asked
  /\ lookup' = [lookup EXCEPT !.asked = TRUE,
                              !.result = best_match(CatalogScores(lookup.catalog))]
  /\ UNCHANGED <<typed, artists, artistCache, handed, spamClock, content, cl, mkRows, today, users, voteVars, spamCache, songVars, wk, reply, msgs>>

FuzzyInit ==
  /\ InitTables
  /\ \E c \in Catalogs : lookup = [catalog |-> c, asked |-> FALSE, result |-> {}]

FuzzyNext == LookupKnownSong

SpecFuzzy == FuzzyInit /\ [][FuzzyNext]_vars

(* One user, one message at a time: every kind of text, over two days and *)
(* with the spam window running out *)
GuardNext ==
  \/ /\ msgs < MaxGuardMessages
     /\ \E w \in ReconWorkers, u \in ReconUsers, t \in VoteTexts(RaceKeys) \cup OtherTexts :
          Begin(w, u, t)
  \/ \E w \in ReconWorkers : Validate(w)
  \/ \E w \in ReconWorkers : TxnRead(w)
  \/ \E w \in ReconWorkers : Commit(w)
  \/ \E w \in ReconWorkers : Process(w)
  \/ NextDay
  \/ \E sk \in DOMAIN spamCache : SpamExpire(sk)

SpecGuard == Init /\ [][GuardNext]_vars

(* The review of pending songs by llm_matcher.process_pending_songs, next   *)
(* to the admin's status changes *)
ReviewNext ==
  \/ /\ msgs < MaxReviewMessages
     /\ \E w \in ReconWorkers, u \in ReconUsers, t \in VoteTexts(ReconKeys) : Begin(w, u, t)
  \/ \E w \in ReconWorkers : Validate(w)
  \/ \E w \in ReconWorkers : TxnRead(w)
  \/ \E w \in ReconWorkers : Commit(w)
  \/ \E w \in ReconWorkers : Process(w)
  \/ \E d \in Dates : ComputeDailyChart(d)
  \/ \E s \in SongIds : AdminVerifySongs(s)
  \/ \E s \in SongIds : MarkPending(s)
  \/ \E p \in SongIds, v \in SongIds : ReviewPending(p, "match", v, "high")
  \/ \E p \in SongIds : ReviewPending(p, "match", 0, "low")
  \/ \E p \in SongIds : ReviewPending(p, "reject", 0, "high")
  \/ \E p \in SongIds : ReviewPending(p, "new", 0, "high")

SpecReview == Init /\ [][ReviewNext]_vars

----------------------------------------------------------------------------
(* The semantic tier with a collaborator that may answer anything: votes   *)
(* of one user, the matching step after each vote and on demand, the two    *)
(* batch entry points of llm_matcher and the review of pending songs        *)
(* the failures, and a match of medium or low confidence towards each id *)
PendingReplies ==
  PendingFailures \cup
  {r \in PendingAnswers : r.action = "match" /\ r.confidence \in {"medium", "low"}}

LogHasRoom == Cardinality(decisionLog) < MaxLogRows

MatchNext ==
  \/ /\ msgs < MaxMatchMessages
     /\ \E w \in ReconWorkers, u \in ReconUsers, t \in VoteTexts(ReconKeys) : Begin(w, u, t)
  \/ \E w \in ReconWorkers : Validate(w)
  \/ \E w \in ReconWorkers : TxnRead(w)
  \/ \E w \in ReconWorkers : Commit(w)
  \/ LogHasRoom /\ \E w \in ReconWorkers : ProcessWith(w, Replies)
  \/ LogHasRoom /\ \E d \in Dates : ProcessNewVotesWith(d, Replies)
  \/ \E k \in ReconKeys, r \in Replies : LLMMatchSelectedWith(k, r)
  \/ \E d \in Dates, k \in ReconKeys, r \in Replies : ProcessUnmatchedVotesWith(d, k, r)
  \/ \E s \in SongIds : VerifySong(s)
  \/ /\ LogHasRoom
     /\ \E p \in SongIds, r \in PendingReplies : ReviewPendingWith(p, r)

(* the catalog is empty, or holds a verified song entered in the admin *)
MatchInit ==
  /\ InitOther
  /\ lookup = NoLookup
  /\ rawTally = Empty
  /\ songs \in {Empty, (1 :> [name |-> 1, status |-> "verified"])}

SpecMatch == MatchInit /\ [][MatchNext]_vars

(* One handler at a time, the request to the collaborator outstanding     *)
(* between the commit of the vote and the confirmation                    *)
CallNext ==
  \/ /\ msgs < MaxCallMessages
     /\ \E w \in ReconWorkers, u \in ReconUsers, t \in VoteTexts(ReconKeys) : Begin(w, u, t)
  \/ \E w \in ReconWorkers : Validate(w)
  \/ \E w \in ReconWorkers : TxnRead(w)
  \/ \E w \in ReconWorkers : Commit(w)
  \/ \E w \in ReconWorkers : CallCollaborator(w)
  \/ \E w \in ReconWorkers : CollaboratorReturns(w, Replies)
  \/ \E w \in ReconWorkers : ProcessLocally(w)

SpecCall == MatchInit /\ [][CallNext]_vars

(* Two users, one message each: the first votes for the verified song, the *)
(* second for a spelling variant of it; two workers, so that the handlers   *)
(* may overlap                                                              *)
Voter == <<"telegram", "r1">>

TypoVoter == <<"whatsapp", "r1">>

TypoInit ==
  /\ InitOther
  /\ lookup = NoLookup
  /\ rawTally = Empty
  /\ songs = (1 :> [name |-> 1, status |-> "verified"])

TypoNext ==
  \/ \E w \in Workers : Voter \notin users /\ Begin(w, Voter, <<"vote", 1>>)
  \/ \E w \in Workers : TypoVoter \notin users /\ Begin(w, TypoVoter, <<"vote", 2>>)
  \/ \E w \in Workers : Validate(w)
  \/ \E w \in Workers : TxnRead(w)
  \/ \E w \in Workers : Commit(w)
  \/ \E w \in Workers : ProcessAndCount(w, Decisive)
  \/ \E w \in Workers : WriteAndReply(w)

SpecTypo == TypoInit /\ [][TypoNext]_vars

(* create_match_key for an artist and a song, and for every other way of   *)
(* typing them: a respelling changes the case of a letter, the kind of a    *)
(* whitespace character, or adds or removes a whitespace character at an    *)
(* end or next to another one                                               *)
NoKey == <<"none">>

InsertAt(s, i, c) == SubSeq(s, 1, i) \o <<c>> \o SubSeq(s, i + 1, Len(s))

DeleteAt(s, i) == SubSeq(s, 1, i - 1) \o SubSeq(s, i + 1, Len(s))

AtWhitespace(s, i) ==
  \/ i = 0 \/ i = Len(s)
  \/ s[i] \in Whitespace
  \/ s[i + 1] \in Whitespace

Respellings(s) ==
  {[s EXCEPT ![i] = c] : i \in {j \in 1 .. Len(s) : s[j] \in Letters}, c \in Letters}
  \cup {[s EXCEPT ![i] = c] : i \in {j \in 1 .. Len(s) : s[j] \in Whitespace},
                              c \in Whitespace}
  \cup {InsertAt(s, i, c) : i \in {j \in 0 .. Len(s) : AtWhitespace(s, j)}, c \in Whitespace}
  \cup {DeleteAt(s, i) : i \in {j \in 1 .. Len(s) :
                                  /\ s[j] \in Whitespace
                                  /\ \/ j = 1 \/ j = Len(s)
                                     \/ s[j - 1] \in Whitespace
                                     \/ s[j + 1] \in Whitespace}}

CreateMatchKey ==
  /\ typed.key = NoKey
  /\ typed' = [typed EXCEPT !.key = create_match_key(typed.artist, typed.song)]
  /\ UNCHANGED <<artists, artistCache, handed, spamClock, content, cl, mkRows, lookup, today, users, voteVars, spamCache, songVars, wk, reply, msgs>>

Retype ==
  /\ \E a \in Respellings(typed.artist), t \in Respellings(typed.song) :
       /\ Len(a) + Len(t) <= MaxTyped
       /\ \/ typed' = [typed EXCEPT !.artist = a]
          \/ typed' = [typed EXCEPT !.song = t]
  /\ UNCHANGED <<artists, artistCache, handed, spamClock, content, cl, mkRows, lookup, today, users, voteVars, spamCache, songVars, wk, reply, msgs>>

KeyInit ==
  /\ InitHandler
  /\ rawTally = Empty
  /\ songs = Empty
  /\ lookup = NoLookup
  /\ spamClock = NoClock
  /\ content = NoContent
  /\ handed = NoBatch
  /\ artists = {}
  /\ artistCache = NoCache
  /\ \E a \in Strings(MaxTyped), t \in Strings(MaxTyped) :
       /\ Len(a) + Len(t) <= MaxTyped
       /\ typed = [artist |-> a, song |-> t, key |-> NoKey]

KeyNext == CreateMatchKey \/ Retype

SpecKey == KeyInit /\ [][KeyNext]_vars

(* parse_vote_input for every text of up to MaxRuns runs *)
Unparsed == <<"unparsed">>

ParseVoteInput ==
  /\ typed.result = Unparsed
  /\ typed' = [typed EXCEPT !.result = parse_vote_input_text(typed.text)]
  /\ UNCHANGED <<artists, artistCache, handed, spamClock, content, cl, mkRows, lookup, today, users, voteVars, spamCache, songVars, wk, reply, msgs>>

ParseInit ==
  /\ InitHandler
  /\ rawTally = Empty
  /\ songs = Empty
  /\ lookup = NoLookup
  /\ spamClock = NoClock
  /\ content = NoContent
  /\ handed = NoBatch
  /\ artists = {}
  /\ artistCache = NoCache
  /\ \E t \in Texts(MaxRuns) : typed = [text |-> t, result |-> Unparsed]

ParseNext == ParseVoteInput

SpecParse == ParseInit /\ [][ParseNext]_vars

(* RawVoteAdmin: the administrator adds, edits and deletes RawVote rows    *)
(* and the admin adjusts RawSongTally.  A row is <<user, date, key>>; the   *)
(* key of a saved row is create_match_key of its artist and song fields,    *)
(* whatever key it had.                                                     *)
VoteRows == BagToSet(rawVotes)

(* the row of (d, k) left at count 0 *)
decrement_keeps_row(rt, d, k) ==
  IF Has(rt, <<d, k>>) THEN Put(rt, <<d, k>>, Max(0, rt[<<d, k>>] - 1)) ELSE rt

(* tally.count = max(0, tally.count - 1), the row deleted at 0 *)
decrement_tally(rt, d, k) ==
  IF ~Has(rt, <<d, k>>) THEN rt
  ELSE IF Max(0, rt[<<d, k>>] - 1) = 0 THEN Drop(rt, {<<d, k>>})
  ELSE Put(rt, <<d, k>>, Max(0, rt[<<d, k>>] - 1))

(* get_or_create of the row, count += 1 *)
increment_tally(rt, d, k) == Put(rt, <<d, k>>, (IF Has(rt, <<d, k>>) THEN rt[<<d, k>>] ELSE 0) + 1)

RECURSIVE decrement_each(_, _)
decrement_each(rt, B) ==
  IF B = EmptyBag THEN rt
  ELSE LET r == CHOOSE x \in BagToSet(B) : TRUE
       IN  decrement_each(decrement_tally(rt, r[2], r[3]), B (-) SetToBag({r}))

(* no handler is inside its atomic block *)
NoOpenTransaction == \A w \in Workers : wk[w].pc # "txn"

AdminFrame ==
  UNCHANGED <<typed, artists, artistCache, handed, spamClock, content, cl, mkRows, lookup, today, users, spamCache, songVars, wk, reply, msgs>>

(* save_model with change = False *)
AdminAddVote(u, d, k) ==
  /\ NoOpenTransaction
  /\ BagCardinality(rawVotes) < MaxAdminVotes
  /\ rawVotes' = rawVotes (+) SetToBag({VoteRow(u, d, k)})
  /\ rawTally' = increment_tally(rawTally, d, k)
  /\ AdminFrame

(* save_model with change = True: row r saved with date d and key k *)
AdminEditVote(r, d, k) ==
  /\ NoOpenTransaction
  /\ r \in VoteRows
  /\ rawVotes' = (rawVotes (-) SetToBag({r})) (+) SetToBag({VoteRow(r[1], d, k)})
  /\ rawTally' = IF r[3] # k \/ r[2] # d
                 THEN increment_tally(decrement_tally(rawTally, r[2], r[3]), d, k)
                 ELSE rawTally
  /\ AdminFrame

(* delete_model *)
AdminDeleteVote(r) ==
  /\ NoOpenTransaction
  /\ r \in VoteRows
  /\ rawVotes' = rawVotes (-) SetToBag({r})
  /\ rawTally' = decrement_tally(rawTally, r[2], r[3])
  /\ AdminFrame

(* delete_queryset for the selected rows B *)
AdminDeleteVotes(B) ==
  /\ NoOpenTransaction
  /\ B # EmptyBag
  /\ rawVotes' = rawVotes (-) B
  /\ rawTally' = decrement_each(rawTally, B)
  /\ AdminFrame

AdminNext ==
  \/ /\ msgs < MaxAdminMessages
     /\ BagCardinality(rawVotes) < MaxAdminVotes
     /\ \E w \in ReconWorkers, u \in ReconUsers, t \in VoteTexts(ReconKeys) : Begin(w, u, t)
  \/ \E w \in ReconWorkers : Validate(w)
  \/ \E w \in ReconWorkers : TxnRead(w)
  \/ \E w \in ReconWorkers : Commit(w)
  \/ \E w \in ReconWorkers : Process(w)
  \/ \E u \in ReconUsers, d \in Dates, k \in ReconKeys : AdminAddVote(u, d, k)
  \/ \E r \in VoteRows, d \in Dates, k \in ReconKeys : AdminEditVote(r, d, k)
  \/ \E r \in VoteRows : AdminDeleteVote(r)
  \/ \E B \in SubBag(rawVotes) : AdminDeleteVotes(B)

SpecAdmin == Init /\ [][AdminNext]_vars

(* The votes of one day in every order of arrival.  All votes name one     *)
(* artist; a title is a number n, the first n letters of one word, so that  *)
(* SequenceMatcher finds the shorter title whole in the longer one and      *)
(* ratio() is 2 * min / (a + b).  No song is verified and no artist is      *)
(* known: normalize_vote_input returns the key of the text as typed.        *)
Voters == 1 .. MaxVoters

(* spellings of 4, 5 and 6 letters: neighbours reach the threshold of 0.82 *)
(* (8/9, 10/11), the shortest and the longest do not (8/10)                *)
Titles == 4 .. 6

(* similarity_ratio(a, b) >= threshold, the threshold in hundredths *)
similarity_ratio_reaches(a, b, threshold) == 200 * Min(a, b) >= threshold * (a + b)

is_similar(a, b, threshold) == a = b \/ similarity_ratio_reaches(a, b, threshold)

(* the first row of RawSongTally.objects.filter(date=date) that is similar: *)
(* the rows come ordered by count, highest first, rows of equal count in    *)
(* the order the database returns them                                      *)
find_existing_song_match_of(title, tally) ==
  LET sim == {e \in DOMAIN tally : is_similar(title, e, SONG_SIMILARITY_THRESHOLD)}
  IN  {e \in sim : \A f \in sim : tally[f] <= tally[e]}

smart_normalize_vote_of(title, tally) ==
  IF find_existing_song_match_of(title, tally) # {}
  THEN find_existing_song_match_of(title, tally) ELSE {title}

(* handle_incoming_text for the vote of voter v: the key, the tally row *)
record_vote(st, v, key) ==
  [votes |-> st.votes,
   left |-> [u \in DOMAIN st.left \ {v} |-> st.left[u]],
   tally |-> Put(st.tally, key, (IF Has(st.tally, key) THEN st.tally[key] ELSE 0) + 1),
   under |-> Put(st.under, v, key)]

Arrive(v) ==
  /\ v \in DOMAIN typed.left
  /\ \E key \in smart_normalize_vote_of(typed.left[v], typed.tally) :
       typed' = record_vote(typed, v, key)
  /\ UNCHANGED <<artists, artistCache, handed, spamClock, content, cl, mkRows, lookup, today, users, voteVars, spamCache, songVars, wk, reply, msgs>>

OrderInit ==
  /\ InitHandler
  /\ rawTally = Empty
  /\ songs = Empty
  /\ lookup = NoLookup
  /\ spamClock = NoClock
  /\ content = NoContent
  /\ handed = NoBatch
  /\ artists = {}
  /\ artistCache = NoCache
  /\ \E votes \in [Voters -> Titles] : 
       typed = [votes |-> votes, left |-> votes, tally |-> Empty, under |-> Empty]

OrderNext == \E v \in Voters : Arrive(v)

SpecOrder == OrderInit /\ [][OrderNext]_vars

(* The table VerifiedArtist and the process-wide cache of                   *)
(* get_verified_artists_cache.  Names are typed in lower case with single  *)
(* spaces, the form normalize_text leaves unchanged.  ArtistNames is in the *)
(* order of Meta.ordering = ['name'].                                      *)
ArtistNames == <<"jah prayzah", "oliver mtukudzi", "winky d">>

Aliases == {"tuku"}

Misspelt == "oliver mtukudzy"

Range(q) == {q[i] : i \in DOMAIN q}

Asked == Range(ArtistNames) \cup Aliases \cup {Misspelt}

name_order(n) == CHOOSE i \in DOMAIN ArtistNames : ArtistNames[i] = n

(* similarity_ratio in hundredths, rounded down, for the strings of Asked: *)
(* 0.933 for the misspelt name and the name it misspells, below 0.43 for   *)
(* every other pair of different strings                                   *)
artist_similarity_ratio(a, b) ==
  IF a = b THEN 100
  ELSE IF {a, b} = {"oliver mtukudzi", Misspelt} THEN 93
  ELSE 42

get_all_names(artist) == {artist.name} \cup artist.aliases

(* the dict built by the loop over the active artists in name order: a key *)
(* two artists share is left with the name of the later one                *)
build_artists_dict(table) ==
  LET active == {a \in table : a.is_active}
      keys == UNION {get_all_names(a) : a \in active}
      last(k) == CHOOSE a \in active :
                   /\ k \in get_all_names(a)
                   /\ \A b \in active :
                        k \in get_all_names(b) => name_order(b.name) <= name_order(a.name)
  IN  [k \in keys |-> last(k).name]

(* the lru_cache of a function without arguments: the body runs on the    *)
(* first call, every later call returns the dict of the first             *)
get_verified_artists_cache(cache, table) ==
  IF cache.filled THEN cache ELSE [filled |-> TRUE, names |-> build_artists_dict(table)]

(* the names match_verified_artist can return for the dict: the exact     *)
(* entry, else the entry of the highest ratio at or above the threshold,   *)
(* else None                                                               *)
match_verified_artist_of(artist_norm, verified_artists) ==
  LET near == {k \in DOMAIN verified_artists :
                 artist_similarity_ratio(artist_norm, k) >= ARTIST_SIMILARITY_THRESHOLD}
      best == {k \in near : \A j \in near :
                 artist_similarity_ratio(artist_norm, j) <= artist_similarity_ratio(artist_norm, k)}
  IN  IF artist_norm \in DOMAIN verified_artists THEN {verified_artists[artist_norm]}
      ELSE IF best # {} THEN {verified_artists[k] : k \in best}
      ELSE {"None"}

NotAsked == [asked |-> "", matched |-> "None", calls |-> 0]

ArtistFrame ==
  UNCHANGED <<handed, spamClock, content, cl, mkRows, lookup, today, users, voteVars, spamCache, songVars, wk, reply, msgs>>

(* VerifiedArtistAdmin, add form: a new row, its name unique *)
AddArtist(n, al) ==
  /\ Cardinality(artists) < MaxArtists
  /\ \A a \in artists : a.name # n
  /\ artists' = artists \cup {[name |-> n, aliases |-> al, is_active |-> TRUE]}
  /\ UNCHANGED <<typed, artistCache>>
  /\ ArtistFrame

(* VerifiedArtistAdmin, change form: the name, the aliases or is_active of *)
(* a row saved by VerifiedArtist.save                                      *)
RenameArtist(a, n) ==
  /\ a \in artists
  /\ \A b \in artists : b.name # n
  /\ artists' = (artists \ {a}) \cup {[a EXCEPT !.name = n]}
  /\ UNCHANGED <<typed, artistCache>>
  /\ ArtistFrame

AddAlias(a, k) ==
  /\ a \in artists
  /\ k \notin a.aliases
  /\ artists' = (artists \ {a}) \cup {[a EXCEPT !.aliases = @ \cup {k}]}
  /\ UNCHANGED <<typed, artistCache>>
  /\ ArtistFrame

DeactivateArtist(a) ==
  /\ a \in artists
  /\ a.is_active
  /\ artists' = (artists \ {a}) \cup {[a EXCEPT !.is_active = FALSE]}
  /\ UNCHANGED <<typed, artistCache>>
  /\ ArtistFrame

(* import_artists, one row of ARTISTS_DATA: update_or_create by name *)
ImportArtist(n, al) ==
  /\ \/ \E a \in artists : a.name = n
     \/ Cardinality(artists) < MaxArtists
  /\ artists' = {a \in artists : a.name # n}
                  \cup {[name |-> n, aliases |-> al, is_active |-> TRUE]}
  /\ artists' # artists
  /\ UNCHANGED <<typed, artistCache>>
  /\ ArtistFrame

(* match_verified_artist for the artist part of a vote *)
MatchVerifiedArtist(artist_norm) ==
  /\ typed.calls < MaxMatches
  /\ artistCache' = get_verified_artists_cache(artistCache, artists)
  /\ \E name \in match_verified_artist_of(artist_norm, artistCache'.names) :
       typed' = [asked |-> artist_norm, matched |-> name, calls |-> typed.calls + 1]
  /\ UNCHANGED artists
  /\ ArtistFrame

ArtistInit ==
  /\ InitHandler
  /\ rawTally = Empty
  /\ songs = Empty
  /\ lookup = NoLookup
  /\ spamClock = NoClock
  /\ content = NoContent
  /\ handed = NoBatch
  /\ typed = NotAsked
  /\ artists = {}
  /\ artistCache = NoCache

ArtistNext ==
  \/ \E n \in Range(ArtistNames), al \in SUBSET Aliases : AddArtist(n, al)
  \/ \E a \in artists, n \in Range(ArtistNames) : RenameArtist(a, n)
  \/ \E a \in artists, k \in Aliases : AddAlias(a, k)
  \/ \E a \in artists : DeactivateArtist(a)
  \/ \E n \in Range(ArtistNames), al \in SUBSET Aliases : ImportArtist(n, al)
  \/ \E artist_norm \in Asked : MatchVerifiedArtist(artist_norm)

SpecArtist == ArtistInit /\ [][ArtistNext]_vars

(* validate_vote_content for every text of Contents *)
ContentInit ==
  /\ InitHandler
  /\ InitText
  /\ rawTally = Empty
  /\ songs = Empty
  /\ lookup = NoLookup
  /\ spamClock = NoClock
  /\ handed = NoBatch
  /\ \E f \in Contents : content = [NoContent EXCEPT !.text = f]

ContentNext == ValidateContent

SpecContent == ContentInit /\ [][ContentNext]_vars

(* One user repeating one text while the clock runs *)
SpamTexts == VoteTexts({2})

SpamNext ==
  \/ \E u \in ReconUsers, t \in SpamTexts : CheckSpam(u, t)
  \/ Tick

SpecSpam == Init /\ [][SpamNext]_vars

----------------------------------------------------------------------------
(* The batch jobs of llm_matcher with their switches: auto is auto_merge   *)
(* of process_pending_songs and auto_link_high_confidence of               *)
(* process_unmatched_votes.                                                *)
Switches == [auto : BOOLEAN, auto_reject : BOOLEAN, dry_run : BOOLEAN]

Defaults == [auto |-> TRUE, auto_reject |-> TRUE, dry_run |-> FALSE]

(* a run that writes whatever dry_run says *)
saves_always(f) == TRUE

(* the test "not dry_run" in front of every write *)
saves(f) == ~f.dry_run

(* The body of process_pending_songs' loop for the pending song p and the  *)
(* parsed result res.  The function never reads auto_reject.               *)
process_pending_result(db, p, res, f) ==
  IF ~saves(f) THEN db
  ELSE IF res.action = "match" /\ ~f.auto
  THEN AddLog(db, ReviewRow(db.songs[p].name, "match", res.confidence,
                            IF res.id \in DOMAIN db.songs THEN res.id ELSE 0, FALSE))
  ELSE apply_pending_result(db, p, res.action, res.id, res.confidence)

process_pending_songs(db, p, r, f) ==
  IF match_pending_songs_with_llm(r) = {} THEN db
  ELSE LET res == CHOOSE x \in match_pending_songs_with_llm(r) : TRUE
       IN  process_pending_result(db, p, res, f)

ReviewPendingSwitched(p, r, f) ==
  /\ VerifiedIds(songs) # {}
  /\ p \in DOMAIN songs /\ songs[p].status = "pending"
  /\ SetDB(process_pending_songs(DB, p, r, f))
  /\ UNCHANGED <<typed, artists, artistCache, handed, spamClock, content, cl, mkRows, lookup, today, users, voteVars, spamCache, wk, reply, msgs>>

(* process_unmatched_votes(date, auto_link_high_confidence, dry_run) for   *)
(* the unmatched key k                                                     *)
process_unmatched_votes(db, rt, d, k, r, f) ==
  LET linked == IF f.auto /\ saves(f) THEN auto_link(db.mapping, db.songs, k, r)
                ELSE db.mapping
  IN  [db EXCEPT !.mapping = linked,
                 !.tally = IF linked # db.mapping /\ saves(f)
                           THEN update_cleaned_tallies(@, db.songs, linked, rt, d)
                           ELSE @]

ProcessUnmatchedSwitched(d, k, r, f) ==
  /\ VerifiedIds(songs) # {}
  /\ k \in UnmappedKeys(d)
  /\ SetDB(process_unmatched_votes(DB, rawTally, d, k, r, f))
  /\ UNCHANGED <<typed, artists, artistCache, handed, spamClock, content, cl, mkRows, lookup, today, users, voteVars, spamCache, wk, reply, msgs>>

----------------------------------------------------------------------------
(* The batch jobs called again and again with one limit, no votes coming   *)
(* in.  handed holds the limit, the keys and songs that some call has      *)
(* passed to the matcher, and what the collaborator, asked with            *)
(* temperature 0, answers for each key and each pending song.              *)

(* get_unmatched_tallies(date, limit): the first limit rows without a      *)
(* mapping by falling count; rows of equal count come in any order         *)
get_unmatched_tallies(d, limit) ==
  LET U == UnmappedKeys(d)
  IN  {E \in SUBSET U :
         /\ Cardinality(E) = Min(limit, Cardinality(U))
         /\ \A e \in E : \A o \in U \ E : rawTally[<<d, e>>] >= rawTally[<<d, o>>]}

(* get_pending_songs(limit): the first limit pending songs, newest first;  *)
(* ids rise with the time of creation                                      *)
get_pending_songs(limit) ==
  LET P == PendingIds(songs)
  IN  CHOOSE E \in SUBSET P :
        /\ Cardinality(E) = Min(limit, Cardinality(P))
        /\ \A e \in E : \A o \in P \ E : e > o

RECURSIVE LinkAll(_, _, _, _)
LinkAll(mp, sg, K, llm) ==
  IF K = {} THEN mp
  ELSE LET k == CHOOSE x \in K : TRUE
       IN  LinkAll(auto_link(mp, sg, k, llm[k]), sg, K \ {k}, llm)

RECURSIVE ReviewAll(_, _, _)
ReviewAll(db, P, llm) ==
  IF P = {} THEN db
  ELSE LET p == CHOOSE x \in P : \A y \in P : x >= y
       IN  ReviewAll(process_pending_songs(db, p, llm[p], Defaults), P \ {p}, llm)

(* the collaborator declines, or names the verified song with confidence   *)
(* high                                                                    *)
BatchReplies == {Declines} \cup {Names(s) : s \in VerifiedIds(songs)}

(* the collaborator finds a new song, or a match of low confidence *)
BatchReviews ==
  {r \in PendingAnswers :
     \/ r.action = "new" /\ r.confidence = "high" /\ r.id = 0
     \/ r.action = "match" /\ r.confidence = "low" /\ r.id \in VerifiedIds(songs)}

(* process_unmatched_votes(date, limit) *)
ProcessUnmatchedBatch(d) ==
  /\ VerifiedIds(songs) # {}
  /\ UnmappedKeys(d) # {}
  /\ \E E \in get_unmatched_tallies(d, handed.limit) :
       /\ handed' = [handed EXCEPT !.keys = @ \cup E]
       /\ mapping' = LinkAll(mapping, songs, E, handed.answers)
  /\ cleanedTally' = IF mapping' = mapping THEN cleanedTally
                     ELSE update_cleaned_tallies(cleanedTally, songs, mapping', rawTally, d)
  /\ UNCHANGED <<typed, artists, artistCache, spamClock, content, cl, mkRows, lookup, today, users, voteVars, spamCache, songs, decisionLog, wk, reply, msgs>>

(* process_pending_songs(limit) *)
ProcessPendingBatch ==
  /\ VerifiedIds(songs) # {}
  /\ PendingIds(songs) # {}
  /\ LET E == get_pending_songs(handed.limit)
     IN  /\ handed' = [handed EXCEPT !.songs = @ \cup E]
         /\ SetDB(ReviewAll(DB, E, handed.reviews))
  /\ UNCHANGED <<typed, artists, artistCache, spamClock, content, cl, mkRows, lookup, today, users, voteVars, spamCache, wk, reply, msgs>>

BatchKeys == {2, 3}

(* A verified song, two pending songs with a key each, and two keys whose  *)
(* raw tallies have no mapping yet                                         *)
BatchInit ==
  /\ InitHandler
  /\ InitText
  /\ lookup = NoLookup
  /\ spamClock = NoClock
  /\ content = NoContent
  /\ songs = (1 :> [name |-> 1, status |-> "verified"])
               @@ (2 :> [name |-> 4, status |-> "pending"])
               @@ (3 :> [name |-> 5, status |-> "pending"])
  /\ \E n \in [BatchKeys -> 1 .. MaxWaiting] :
       /\ SumOver(n, BatchKeys) <= MaxTally
       /\ rawTally = [p \in {<<1, k>> : k \in BatchKeys} |-> n[p[2]]]
  /\ \E limit \in 1 .. MaxLimit :
       \E a \in [BatchKeys -> BatchReplies], r \in [PendingIds(songs) -> BatchReviews] :
         handed = [NoBatch EXCEPT !.limit = limit, !.answers = a, !.reviews = r]

BatchNext ==
  \/ \E d \in Dates : ProcessUnmatchedBatch(d)
  \/ ProcessPendingBatch

SpecBatch == BatchInit /\ [][BatchNext]_vars

(* the operator calls each job again as long as it has something to do *)
SpecBatchFair ==
  /\ SpecBatch
  /\ WF_vars(\E d \in Dates : ProcessUnmatchedBatch(d))
  /\ WF_vars(ProcessPendingBatch)

----------------------------------------------------------------------------
(* the failures, and every action towards every id with confidence high   *)
(* or low                                                                  *)
ReviewReplies ==
  PendingFailures \cup {r \in PendingAnswers : r.confidence \in {"high", "low"}}

(* process_pending_songs in two steps, with the administrator at work in   *)
(* between: the list of pending songs is fetched, the collaborator is      *)
(* asked, and each result is applied to the song of its id                 *)
ReviewFetch ==
  /\ VerifiedIds(songs) # {}
  /\ PendingIds(songs) # {}
  /\ handed.songs = {}
  /\ handed' = [handed EXCEPT !.songs = PendingIds(songs)]
  /\ UNCHANGED <<typed, artists, artistCache, spamClock, content, cl, mkRows, lookup, today, users, voteVars, spamCache, songVars, wk, reply, msgs>>

(* CleanedSong.objects.filter(id=...).update(status=...) and the merge     *)
(* look the song up by id alone                                            *)
ReviewApply(p, r) ==
  /\ p \in handed.songs
  /\ handed' = [handed EXCEPT !.songs = @ \ {p}]
  /\ SetDB(process_pending_songs(DB, p, r, Defaults))
  /\ UNCHANGED <<typed, artists, artistCache, spamClock, content, cl, mkRows, lookup, today, users, voteVars, spamCache, wk, reply, msgs>>

StaleNext ==
  \/ /\ msgs < MaxStaleMessages
     /\ \E w \in ReconWorkers, u \in ReconUsers, t \in VoteTexts(ReconKeys) : Begin(w, u, t)
  \/ \E w \in ReconWorkers : Validate(w)
  \/ \E w \in ReconWorkers : TxnRead(w)
  \/ \E w \in ReconWorkers : Commit(w)
  \/ \E w \in ReconWorkers : Process(w)
  \/ ReviewFetch
  \/ LogHasRoom /\ \E p \in SongIds, r \in ReviewReplies : ReviewApply(p, r)
  \/ \E s \in SongIds : AdminVerifySongs(s)
  \/ \E s \in SongIds : RejectSong(s)

SpecStale == MatchInit /\ [][StaleNext]_vars

(* The batch jobs run with every setting of their switches, next to the   *)
(* votes of one user                                                       *)
SwitchNext ==
  \/ /\ msgs < MaxSwitchMessages
     /\ \E w \in ReconWorkers, u \in ReconUsers, t \in VoteTexts(ReconKeys) : Begin(w, u, t)
  \/ \E w \in ReconWorkers : Validate(w)
  \/ \E w \in ReconWorkers : TxnRead(w)
  \/ \E w \in ReconWorkers : Commit(w)
  \/ \E w \in ReconWorkers : Process(w)
  \/ /\ LogHasRoom
     /\ \E p \in SongIds, r \in ReviewReplies, f \in Switches : ReviewPendingSwitched(p, r, f)
  \/ \E d \in Dates, k \in ReconKeys, r \in Replies, f \in Switches :
       ProcessUnmatchedSwitched(d, k, r, f)

SpecSwitch == MatchInit /\ [][SwitchNext]_vars

----------------------------------------------------------------------------
(* Concurrent resolutions: the keys of ResolveKeys have been voted for and  *)
(* are unmapped; the catalog may hold a verified song and a song of any     *)
(* status, entered in the admin in another casing, under the name of key 2  *)
ResolveKeys == {2, 3}

ResolveCatalogs ==
  {Empty} \cup
  {(1 :> [name |-> 1, status |-> "verified"])} \cup
  {(1 :> [name |-> 1, status |-> "verified"]) @@ (2 :> [name |-> -2, status |-> st]) :
     st \in {"pending", "verified", "rejected"}}

ResolveInit ==
  /\ InitOther
  /\ lookup = NoLookup
  /\ rawTally = [p \in {<<1, k>> : k \in ResolveKeys} |-> 1]
  /\ songs \in ResolveCatalogs

ResolveNext ==
  \/ \E c \in Cleaners, k \in ResolveKeys : FallbackStart(c, k)
  \/ \E c \in Cleaners : PendingPrecheck(c)
  \/ \E c \in Cleaners : PendingCreate(c)
  \/ \E c \in Cleaners, k \in ResolveKeys, s \in SongIds : LinkStart(c, k, s)
  \/ \E c \in Cleaners : MappingGet(c)
  \/ \E c \in Cleaners : MappingInsert(c)

SpecResolve == ResolveInit /\ [][ResolveNext]_vars

----------------------------------------------------------------------------
(* Properties *)

(* C1: however the handlers of concurrent messages interleave, every       *)
(* RawSongTally row counts exactly the RawVote rows of its date and key,   *)
(* and a pair without a row has no votes.                                  *)
C1_TallyCountsVotes ==
  \A d \in Dates, k \in AllKeys : tally_read(d, k) = VoteCount(d, k)

(* C7: whatever the interleaving of the workers, a user never holds more   *)
(* than MAX_VOTES_PER_DAY RawVote rows for one vote date.                  *)
C7_DailyCeiling ==
  \A u \in Users, d \in Dates : todays_count(u, d) <= MAX_VOTES_PER_DAY

(* C10: a user holds at most one RawVote row per grouping key and vote     *)
(* date, also when concurrent workers handle two messages for one key.     *)
C10_OneVotePerKey ==
  \A r \in BagToSet(rawVotes) : CopiesIn(r, rawVotes) <= 1

(* Steps of the handler as seen from outside: a message of user u arrives, *)
(* worker w runs the checks after the ceiling, w leaves a given position.  *)
Arrives(u) ==
  /\ msgs' = msgs + 1
  /\ IF wk' = wk THEN reply'.user = u
     ELSE \E w \in Workers : wk'[w] # wk[w] /\ wk'[w].user = u

Leaves(w, pc) == wk[w].pc = pc /\ wk'[w].pc # pc

Quiescent == \A w \in Workers : wk[w].pc = "idle"

HoldsVote(u, d, k) == VoteRow(u, d, k) \in BagToSet(rawVotes)

Sendable(w) ==
  /\ wk[w].text[1] = "vote"
  /\ spam_count(wk[w].user, wk[w].text) < SPAM_MAX_IDENTICAL

Resolutions(w) == smart_normalize_vote(wk[w].text[2], wk[w].date, songs, rawTally)

(* C8: a message of a user who holds MAX_VOTES_PER_DAY votes for the day   *)
(* is answered with the used-all-votes message and stores nothing, a       *)
(* message of a user below the ceiling goes on to the checks; a valid vote *)
(* for a song the user has not voted for passes them, is stored as one     *)
(* RawVote row and is answered "Vote recorded"; and once the handlers are  *)
(* done every song named by a valid message has its RawVote row.           *)
C8_CeilingRejectsNextVote ==
  /\ [](Quiescent =>
         \A sk \in DOMAIN spamCache, u \in users :
            sk[1] = u[2] => HoldsVote(u, today, sk[2][2]))
  /\ [][/\ \A u \in Users :
            Arrives(u) =>
              IF todays_count(u, today) >= MAX_VOTES_PER_DAY
              THEN wk' = wk /\ reply' = Reply(u, "limit", 0) /\ voteVars' = voteVars
              ELSE (\E w \in Workers : Leaves(w, "idle") /\ wk'[w].pc = "counted")
         /\ \A w \in Workers :
            /\ Leaves(w, "counted") /\ Sendable(w)
                 /\ (\A k \in Resolutions(w) : ~HoldsVote(wk[w].user, wk[w].date, k))
               => wk'[w].pc = "ready"
            /\ Leaves(w, "txn")
               => rawVotes' = rawVotes (+) SetToBag({VoteRow(wk[w].user, wk[w].date, wk[w].key)})
            /\ Leaves(w, "stored")
               => /\ reply'.user = wk[w].user /\ reply'.resp = "recorded"
                  /\ HoldsVote(wk[w].user, wk[w].date, wk[w].key)]_vars

(* C8 witness: the user holds N votes and the message after them was       *)
(* answered with the used-all-votes message                                *)
C8_Witness ==
  /\ Quiescent
  /\ msgs = MAX_VOTES_PER_DAY + 1
  /\ \E u \in users :
       /\ todays_count(u, today) = MAX_VOTES_PER_DAY
       /\ Cardinality(VotesOf(u, today)) = MAX_VOTES_PER_DAY
       /\ reply = Reply(u, "limit", 0)

ResolvesToVoted(w) ==
  /\ wk[w].text[1] = "vote"
  /\ \A k \in Resolutions(w) : HoldsVote(wk[w].user, wk[w].date, k)

CleanedTotal(ct, d) == SumOver(ct, {p \in DOMAIN ct : p[2] = d})

RawTotal(rt, d) == RawSum(rt, d, DateKeys(rt, d))

(* C2: in every reachable state the CleanedSongTally counts of a date sum  *)
(* to at most the sum of the RawSongTally counts of that date.             *)
C2_NoDoubleCounting ==
  \A d \in Dates : CleanedTotal(cleanedTally, d) <= RawTotal(rawTally, d)

(* What a full regeneration of date d leaves: a verified song counts the   *)
(* raw votes of the keys mapped to it, any other song has no row.          *)
Regenerated(ct, sg, mp, rt, d) ==
  \A s \in SongIds :
     IF s \in VerifiedIds(sg)
     THEN CountOf(ct, s, d) = RawSum(rt, d, KeysOf(mp, s) \cap DateKeys(rt, d))
     ELSE ~Has(ct, <<s, d>>)

(* C3: from any reachable state, recompute(date) leaves for every verified *)
(* song the sum of the raw counts of the keys mapped to it and no row for  *)
(* any other song.                                                         *)
C3_RecomputeRegenerates ==
  \A d \in Dates :
     Regenerated(update_cleaned_tallies(cleanedTally, songs, mapping, rawTally, d),
                 songs, mapping, rawTally, d)

(* C4: every CleanedSongTally row belongs to a song whose status is        *)
(* verified.                                                               *)
C4_OnlyVerifiedCounted ==
  \A p \in DOMAIN cleanedTally : p[1] \in VerifiedIds(songs)

(* merge(A, B) followed by recompute(date), applied to the current state *)
MergeThenRecompute(a, b, d) ==
  LET m == merge_songs(DB, a, b)
  IN  [m EXCEPT !.tally = update_cleaned_tallies(m.tally, m.songs, m.mapping, rawTally, d)]

MergeOutcome(a, b, d) ==
  LET r == MergeThenRecompute(a, b, d)
  IN  /\ CountOf(r.tally, b, d) = CountOf(cleanedTally, a, d) + CountOf(cleanedTally, b, d)
      /\ \A k \in KeysOf(mapping, a) : Has(r.mapping, k) /\ r.mapping[k] = b
      /\ a \notin DOMAIN r.songs
      /\ \A p \in DOMAIN r.tally : p[1] # a

UpToDate(s, d) ==
  CountOf(cleanedTally, s, d) = RawSum(rawTally, d, KeysOf(mapping, s) \cap DateKeys(rawTally, d))

(* C5 as stated: for distinct songs A and B, merge(A, B) followed by       *)
(* recompute(date) leaves B with the sum of the counts A and B had for the *)
(* date, every key of A mapped to B, no song A and no tally row of A.      *)
C5_MergeKeepsSum ==
  \A a \in DOMAIN songs, b \in DOMAIN songs, d \in Dates :
     a # b => MergeOutcome(a, b, d)

(* C5 amended: the same, for songs A and B whose counts for the date equal *)
(* the raw counts of the keys mapped to them when the merge starts.        *)
C5_MergeKeepsCurrentSum ==
  \A a \in DOMAIN songs, b \in DOMAIN songs, d \in Dates :
     a # b /\ UpToDate(a, d) /\ UpToDate(b, d) => MergeOutcome(a, b, d)

(* C5 witness: two verified songs with one vote each are merged and the    *)
(* recomputed target counts both votes                                     *)
C5_Witness ==
  \E a \in VerifiedIds(songs), b \in VerifiedIds(songs) :
     /\ a # b
     /\ CountOf(cleanedTally, a, today) = 1 /\ CountOf(cleanedTally, b, today) = 1
     /\ UpToDate(a, today) /\ UpToDate(b, today)
     /\ CountOf(MergeThenRecompute(a, b, today).tally, b, today) = 2
     /\ KeysOf(MergeThenRecompute(a, b, today).mapping, b) = {2, 3}

(* C6: a step that moves the mappings of a song to another song also adds  *)
(* the source's tally counts to the target's, date by date, and removes    *)
(* the source song and its tally rows.                                     *)
C6_MergeIsWhole ==
  [][\A a \in DOMAIN songs, b \in DOMAIN songs :
       /\ a # b /\ KeysOf(mapping, a) # {}
       /\ \A k \in KeysOf(mapping, a) : Has(mapping', k) /\ mapping'[k] = b
       => /\ a \notin DOMAIN songs'
          /\ \A d \in Dates :
                /\ ~Has(cleanedTally', <<a, d>>)
                /\ CountOf(cleanedTally', b, d)
                     = CountOf(cleanedTally, b, d) + CountOf(cleanedTally, a, d)]_vars

(* C11: match_against_known_songs returns a song only when its score is at *)
(* least AUTO_MERGE_THRESHOLD and exceeds the score of every other         *)
(* candidate by at least CONFIDENCE_GAP; with a smaller gap it returns     *)
(* nothing, whatever the best score.                                       *)
C11_GapGuardsAutoLink ==
  lookup.asked =>
    LET sc == CatalogScores(lookup.catalog) IN
    \A i \in lookup.result :
       /\ sc[i] >= AUTO_MERGE_THRESHOLD
       /\ \A j \in DOMAIN sc \ {i} : sc[i] - sc[j] >= CONFIDENCE_GAP

(* C11 witness: the best of two candidates clears the threshold, the other *)
(* is less than the gap behind, and the lookup returned nothing            *)
C11_Witness ==
  /\ lookup.asked /\ lookup.result = {}
  /\ LET sc == CatalogScores(lookup.catalog) IN
     /\ DOMAIN sc = {1, 2}
     /\ sc[1] >= AUTO_MERGE_THRESHOLD /\ sc[1] > sc[2] /\ sc[1] - sc[2] < CONFIDENCE_GAP

(* C12: in the semantic tier a key or a pending song is linked to the song *)
(* the collaborator names only when the result carries confidence high (or *)
(* medium, in the review of pending songs) together with an id.  Any other *)
(* result, and a response that failed, leaves the key to the pending        *)
(* fallback (the song that carries the key's own name), adds no mapping in  *)
(* the batch entry points, and merges nothing.                              *)
NotHigh(r) == r \in Failures \/ r.confidence # "high" \/ r.id = 0

FallsBack(db, k, out) ==
  /\ \E s \in DOMAIN out.songs : out.songs[s].name = k /\ out.mapping = Put(db.mapping, k, s)
  /\ \A s \in DOMAIN db.songs : s \in DOMAIN out.songs /\ out.songs[s] = db.songs[s]
  /\ \A row \in out.log \ db.log : row.action = "new"

C12_InconclusiveNeverLinks ==
  /\ \A r \in Responses :
       NotHigh(r) =>
         /\ \A d \in Dates : \A k \in UnmappedKeys(d) :
              FallsBack(DB, k, process_single_tally(DB, k, VerifiedIds(songs), r))
         /\ \A k \in AllKeys : auto_link(mapping, songs, k, r) = mapping
  /\ \A p \in DOMAIN songs, v \in 0 .. MaxAnswerId, c \in Confidences :
       songs[p].status = "pending" /\ (c \in {"low", "none"} \/ v = 0) =>
         LET out == apply_pending_result(DB, p, "match", v, c)
         IN  out.songs = songs /\ out.mapping = mapping /\ out.tally = cleanedTally

(* C12 witness: a key answered with confidence low while the catalog has a  *)
(* verified song, and mapped to the pending song of its own name            *)
C12_Witness ==
  \E row \in decisionLog :
     /\ row.itype = "raw_vote" /\ row.action = "new" /\ row.confidence = "low"
     /\ Has(mapping, row.input)
     /\ songs[mapping[row.input]] = [name |-> row.input, status |-> "pending"]
     /\ VerifiedIds(songs) # {}

(* C13: the decision-log row of a semantic-matching result exists before   *)
(* the mutation it describes: a step that maps a key for the first time or  *)
(* creates a song starts from a state that already holds a raw_vote row for *)
(* that input, and a step that merges a pending song away starts from a     *)
(* state that already holds a pending_song row for its name.                *)
Logged(itype, n) == \E row \in decisionLog : row.itype = itype /\ row.input = n

C13_LogBeforeMutation ==
  [][/\ \A k \in DOMAIN mapping' \ DOMAIN mapping : Logged("raw_vote", k)
     /\ \A s \in DOMAIN songs' \ DOMAIN songs : Logged("raw_vote", songs'[s].name)
     /\ \A s \in DOMAIN songs \ DOMAIN songs' : Logged("pending_song", songs[s].name)]_vars

(* C14: processing one unmapped key writes exactly one mapping, for that   *)
(* key, creates at most one song and leaves a raw_vote row for the key in   *)
(* the decision log, whatever the collaborator answered.                    *)
C14_OneMappingOneLogRow ==
  \A d \in Dates : \A k \in UnmappedKeys(d) : \A r \in Responses :
     LET out == process_single_tally(DB, k, VerifiedIds(songs), r) IN
     /\ DOMAIN out.mapping = DOMAIN mapping \cup {k}
     /\ \A j \in DOMAIN mapping : out.mapping[j] = mapping[j]
     /\ Cardinality(DOMAIN out.songs \ DOMAIN songs) <= 1
     /\ \E row \in out.log : row.itype = "raw_vote" /\ row.input = k

(* C15: the MatchKeyMapping table never holds two rows for one key, and a  *)
(* resolution that ends (by _create_mapping or create_match_mapping, alone  *)
(* or racing another one for the same key) leaves the key's single row      *)
(* pointing to the song it resolved to.                                     *)
OneRowPerKey == \A k \in AllKeys : Cardinality(RowsOf(mkRows, k)) <= 1

EndsMapped(c) ==
  cl[c].pc \in {"map", "insert"} /\ cl'[c].pc = "done" =>
    \E row \in mkRows' : RowsOf(mkRows', cl[c].key) = {row} /\ row.song = cl[c].song

C15_OneMappingPerKey == []OneRowPerKey /\ [][\A c \in Cleaners : EndsMapped(c)]_vars

(* C15 witness: both resolutions ended for the same key, one by the        *)
(* fallback and one by an auto-link to another song: one row                *)
C15_Witness ==
  /\ cl["c1"].pc = "done" /\ cl["c2"].pc = "done"
  /\ cl["c1"].key = cl["c2"].key
  /\ cl["c1"].by = "fallback" /\ cl["c2"].by = "link"
  /\ cl["c1"].song # cl["c2"].song
  /\ Cardinality(RowsOf(mkRows, cl["c1"].key)) = 1

(* C16: the pending fallback never duplicates a canonical name: no two     *)
(* songs carry the same name up to case; a fallback that finds a song of    *)
(* that name, whatever its status, takes that row and inserts nothing; and  *)
(* two fallbacks that ran for the same new name end on one song, to which   *)
(* the key is mapped.                                                       *)
NamesDistinct ==
  \A s \in DOMAIN songs, t \in DOMAIN songs : iexact(songs[s].name, songs[t].name) => s = t

SameSong ==
  \A c \in Cleaners : \A e \in Cleaners \ {c} :
     /\ cl[c].pc = "done" /\ cl[e].pc = "done"
     /\ cl[c].by = "fallback" /\ cl[e].by = "fallback"
     /\ cl[c].key = cl[e].key
     => /\ cl[c].song = cl[e].song
        /\ RowsOf(mkRows, cl[c].key) # {}
        /\ \A row \in RowsOf(mkRows, cl[c].key) : row.song = cl[c].song

TakesExisting(c) ==
  cl[c].by = "fallback" /\ cl[c].pc \in {"precheck", "create"} /\ cl'[c].pc = "map" =>
    /\ cl'[c].song \in NamedIds(songs', cl[c].key)
    /\ NamedIds(songs, cl[c].key) # {} => songs' = songs

C16_NoDuplicateName ==
  [](NamesDistinct /\ SameSong) /\ [][\A c \in Cleaners : TakesExisting(c)]_vars

(* C16 witness: both fallbacks ran for key 3, whose name no song carried,  *)
(* and ended; one pending song of that name exists                          *)
C16_Witness ==
  /\ \A c \in Cleaners : cl[c].pc = "done" /\ cl[c].by = "fallback" /\ cl[c].key = 3
  /\ \E s \in DOMAIN songs :
       /\ songs[s] = [name |-> 3, status |-> "pending"]
       /\ \A c \in Cleaners : cl[c].song = s
       /\ \E row \in mkRows : row.key = 3 /\ row.song = s

(* C17: a step that turns a pending song into a verified one leaves, for   *)
(* every date, the song's cleaned tally equal to the sum of the raw tallies *)
(* of the keys mapped to it.                                                *)
BecomesVerified(s) ==
  /\ s \in DOMAIN songs /\ songs[s].status = "pending"
  /\ s \in DOMAIN songs' /\ songs'[s].status = "verified"

C17_VerifyReconciles ==
  [][\A s \in SongIds :
       BecomesVerified(s) =>
         \A d \in Dates :
            CountOf(cleanedTally', s, d) =
              RawSum(rawTally', d, KeysOf(mapping', s) \cap DateKeys(rawTally', d))]_vars

(* C18: once the RawVote row and the tally increment are committed the     *)
(* vote stands: the matching step that follows, failed or not, leaves both  *)
(* tables as they are and the user is told that the vote was recorded.      *)
C18_VoteSurvivesMatching ==
  [][\A w \in Workers :
       wk[w].pc = "stored" /\ wk'[w].pc # "stored" =>
         /\ rawVotes' = rawVotes /\ rawTally' = rawTally
         /\ HoldsVote(wk[w].user, wk[w].date, wk[w].key)
         /\ Has(rawTally, <<wk[w].date, wk[w].key>>)
         /\ reply' = Reply(wk[w].user, "recorded", MAX_VOTES_PER_DAY - (wk[w].count + 1))]_vars

(* C18 witness: the matching step raised for the key of the last vote (no  *)
(* mapping, no song and no log row for it) and the reply is "recorded"      *)
C18_Witness ==
  /\ reply.resp = "recorded"
  /\ \A w \in Workers : wk[w].pc = "idle"
  /\ \E k \in ReconKeys :
       /\ HoldsVote(reply.user, today, k)
       /\ Has(rawTally, <<today, k>>)
       /\ ~Has(mapping, k)
       /\ NamedIds(songs, k) = {}
       /\ ~Logged("raw_vote", k)

(* C19: when process_new_votes(date) returns, every key with a raw tally   *)
(* on the date has a mapping, and every key that was unmapped and that the  *)
(* semantic tier did not link to the verified song it named is mapped to    *)
(* the song of the key's own name, which is pending when it is new.         *)
Resolved(db, k, r) ==
  /\ r \in Answers /\ r.matched /\ r.confidence = "high"
  /\ r.id \in VerifiedIds(songs)
  /\ db.mapping[k] = r.id

FellBack(db, k) ==
  /\ iexact(db.songs[db.mapping[k]].name, k)
  /\ db.mapping[k] \notin DOMAIN songs => db.songs[db.mapping[k]].status = "pending"

Malformed(r) == r \in Failures \/ r.id = NotANumber \/ r.confidence = Null

C20_MalformedIsNoMatch ==
  /\ \A r \in Responses :
       Malformed(r) =>
         /\ \A k \in AllKeys : auto_link(mapping, songs, k, r) = mapping
         /\ \A d \in Dates : \A k \in UnmappedKeys(d) :
              LET out == process_single_tally(DB, k, VerifiedIds(songs), r)
              IN  ~out.raised /\ FallsBack(DB, k, out)
  /\ \A r \in PendingFailures : match_pending_songs_with_llm(r) = {}

----------------------------------------------------------------------------
(* C21: the confirmation of a recorded vote does not wait for the          *)
(* collaborator: while the handler's request to the collaborator is        *)
(* outstanding, the confirmation of that vote, with its remaining-votes    *)
(* count, has already been returned.                                       *)
Confirmation(w) ==
  Reply(wk[w].user, "recorded", MAX_VOTES_PER_DAY - (wk[w].count + 1))

C21_ConfirmationBeforeCall ==
  \A w \in ReconWorkers : wk[w].pc = "calling" => reply = Confirmation(w)

----------------------------------------------------------------------------
(* C22: the handler answers with the rejection of the first check that     *)
(* fails, in the order daily ceiling, content, spam, format, duplicate,    *)
(* and a rejected message stores no vote and changes no tally.  A message  *)
(* goes past the ceiling test only below the ceiling; each rejection is    *)
(* given only when every earlier check passed and its own check failed;    *)
(* a message is passed on to the insert only when all five checks passed.  *)
Rejections == {"limit", "invalid_content", "spam", "invalid_format", "already"}

SpamSeen(me) ==
  Has(spamCache, SpamKey(me.user, me.text))
    /\ spamCache[SpamKey(me.user, me.text)] >= SPAM_MAX_IDENTICAL

PassesContentAndSpam(me) == validate_vote_content(me.text) /\ ~SpamSeen(me)

VotedToday(me, k) == CopiesIn(VoteRow(me.user, me.date, k), rawVotes) > 0

AnsweredInOrder(w) ==
  LET me == wk[w] IN
  /\ wk'[w].pc = "counted" => todays_count(wk'[w].user, today) < MAX_VOTES_PER_DAY
  /\ (wk' = wk /\ msgs' # msgs /\ reply'.resp = "limit")
       => todays_count(reply'.user, today) >= MAX_VOTES_PER_DAY
  /\ (me.pc = "counted" /\ wk'[w].pc = "idle") =>
       /\ reply'.user = me.user
       /\ reply'.resp \in Rejections \ {"limit"}
       /\ reply'.resp = "invalid_content" <=> ~validate_vote_content(me.text)
       /\ reply'.resp = "spam" <=> (validate_vote_content(me.text) /\ SpamSeen(me))
       /\ reply'.resp = "invalid_format"
            <=> (PassesContentAndSpam(me) /\ parse_vote_input(me.text) = {})
       /\ reply'.resp = "already" =>
            /\ PassesContentAndSpam(me)
            /\ \E k \in parse_vote_input(me.text) :
                 \E r \in smart_normalize_vote(k, me.date, songs, rawTally) :
                   VotedToday(me, r)
  /\ (me.pc = "counted" /\ wk'[w].pc = "ready") =>
       /\ PassesContentAndSpam(me)
       /\ parse_vote_input(me.text) # {}
       /\ ~VotedToday(me, wk'[w].key)
  /\ (me.pc \in {"idle", "counted"} /\ reply' # reply /\ reply'.resp \in Rejections)
       => UNCHANGED voteVars

----------------------------------------------------------------------------
(* C23: spam suppression is a sliding window: a message is rejected as    *)
(* spam only if the same user sent the same text SPAM_MAX_IDENTICAL times  *)
(* within the SPAM_WINDOW_SECONDS before it, however the earlier messages  *)
(* were spaced.                                                            *)
Predecessors(sk, at) ==
  {p \in spamClock.sent : p[1] = sk /\ p[2] < at /\ p[2] >= at - SPAM_WINDOW_SECONDS}

C23_SlidingWindow ==
  spamClock.last.spam
    => Cardinality(Predecessors(spamClock.last.key, spamClock.last.at))
         >= SPAM_MAX_IDENTICAL

----------------------------------------------------------------------------
(* C24: validate_vote_content rejects every text that contains a URL,      *)
(* more than 2 emoji, more than 100 characters, more than one line or      *)
(* more than one sentence terminator, accepts every other text, and gives  *)
(* each of the five features, when it is the only one, a message of its    *)
(* own.                                                                    *)
HasUrl(f) == f.url

ManyEmoji(f) == f.emojis > 2

TooLong(f) == f.length > 100

ManyLines(f) == f.newlines + 1 > 1

ManyTerminators(f) == f.enders > 1

Offending(f) ==
  HasUrl(f) \/ ManyEmoji(f) \/ TooLong(f) \/ ManyLines(f) \/ ManyTerminators(f)

OnlyFeature(f) ==
  {n \in 1 .. 5 :
     <<HasUrl(f), ManyEmoji(f), TooLong(f), ManyLines(f), ManyTerminators(f)>>
       = [i \in 1 .. 5 |-> i = n]}

C24_ContentRules ==
  content.asked =>
    /\ Offending(content.text) <=> content.verdict # ""
    /\ \A g \in Contents :
         (OnlyFeature(g) # {} /\ OnlyFeature(content.text) # {}
            /\ OnlyFeature(g) # OnlyFeature(content.text)
            /\ content.verdict # "")
           => content_error(g) # content.verdict

----------------------------------------------------------------------------
(* C25: with auto_reject disabled no song's status is changed to rejected  *)
(* by a run of process_pending_songs: for every pending song, every        *)
(* response and every setting of the other switches, the songs rejected    *)
(* after the run were rejected before it.                                  *)
C25_NoAutoRejectKeepsPending ==
  VerifiedIds(songs) # {} =>
    \A p \in PendingIds(songs), r \in PendingAnswers \cup PendingFailures, f \in Switches :
      ~f.auto_reject =>
        RejectedIds(process_pending_songs(DB, p, r, f).songs) \subseteq RejectedIds(songs)

----------------------------------------------------------------------------
(* C26: a dry run saves nothing: for every pending song, every unmatched   *)
(* key, every response and every setting of the other switches,            *)
(* process_pending_songs and process_unmatched_votes with dry_run leave    *)
(* the songs, the mappings, the cleaned tallies and the decision log as    *)
(* they were.                                                              *)
C26_DryRunSavesNothing ==
  VerifiedIds(songs) # {} =>
    \A f \in Switches :
      f.dry_run =>
        /\ \A p \in PendingIds(songs), r \in PendingAnswers \cup PendingFailures :
             process_pending_songs(DB, p, r, f) = DB
        /\ \A d \in Dates :
             \A k \in UnmappedKeys(d), r \in Responses :
               process_unmatched_votes(DB, rawTally, d, k, r, f) = DB

(* a pending song and an unmatched key for which the same responses, in a  *)
(* run that is not dry, change the tables                                  *)
C26_Witness ==
  /\ VerifiedIds(songs) # {}
  /\ \E p \in PendingIds(songs), r \in PendingAnswers :
       /\ process_pending_songs(DB, p, r, Defaults) # DB
       /\ process_pending_songs(DB, p, r, [Defaults EXCEPT !.dry_run = TRUE]) = DB
  /\ \E d \in Dates :
       \E k \in UnmappedKeys(d), r \in Responses :
         /\ process_unmatched_votes(DB, rawTally, d, k, r, Defaults) # DB
         /\ process_unmatched_votes(DB, rawTally, d, k, r,
                                    [Defaults EXCEPT !.dry_run = TRUE]) = DB

----------------------------------------------------------------------------
(* C27: recompute(date) is idempotent: with the raw tallies, the mappings  *)
(* and the statuses as they are, running it a second time leaves the       *)
(* cleaned tallies exactly as the first run left them.                     *)
Recomputed(ct, d) == update_cleaned_tallies(ct, songs, mapping, rawTally, d)

C27_RecomputeIdempotent ==
  \A d \in Dates : Recomputed(Recomputed(cleanedTally, d), d) = Recomputed(cleanedTally, d)

(* a state in which the first run writes: a row is missing or out of date *)
C27_Witness ==
  \E d \in Dates :
    /\ Recomputed(cleanedTally, d) # cleanedTally
    /\ \E p \in DOMAIN cleanedTally : p[2] = d

----------------------------------------------------------------------------
(* C28: tally recompute and the re-scan of unmapped keys never create,     *)
(* modify or delete a RawVote or a RawSongTally row: every step of         *)
(* compute_daily_chart, of process_new_votes (on demand, or as the         *)
(* matching step of a vote handler) and of process_unmatched_votes leaves  *)
(* both tables as they were, whatever the vote handlers are in the middle  *)
(* of.                                                                     *)
ReconciliationStep ==
  \/ \E d \in Dates : ComputeDailyChart(d)
  \/ \E d \in Dates : ProcessNewVotes(d)
  \/ \E w \in ReconWorkers : Process(w)
  \/ \E d \in Dates, k \in ReconKeys, s \in SongIds : ProcessUnmatchedVotes(d, k, s)

C28_ReconciliationLeavesVotes == [][ReconciliationStep => UNCHANGED voteVars]_vars

(* a vote handler between the read of the tally row and its commit, with   *)
(* raw tallies of the date counted for a verified song and a recompute     *)
(* that has something to write                                             *)
C28_Witness ==
  /\ \E w \in ReconWorkers : wk[w].pc = "txn"
  /\ \E d \in Dates :
       /\ SongCounts(songs, mapping, rawTally, d) # <<>>
       /\ Recomputed(cleanedTally, d) # cleanedTally

----------------------------------------------------------------------------
(* C29: with no votes coming in, repeating the bounded batch jobs          *)
(* eventually hands every unmatched key and every pending song to the      *)
(* matcher.                                                                *)
C29_EveryItemHanded ==
  <>(BatchKeys \subseteq handed.keys /\ {2, 3} \subseteq handed.songs)

----------------------------------------------------------------------------
(* C30: no automatic step verifies a pending song on less than a           *)
(* high-confidence answer, and no automatic step changes the status of a   *)
(* song that is already verified or rejected, also when an administrator   *)
(* changes the status while a batch review is running: in every step in    *)
(* which process_pending_songs applies a result, a song whose status       *)
(* changes was pending, and it becomes verified only on confidence high.   *)
StatusMoves(r) ==
  \A s \in DOMAIN songs \cap DOMAIN songs' :
    songs'[s].status # songs[s].status =>
      /\ songs[s].status = "pending"
      /\ songs'[s].status = "verified" => (r.status = "ok" /\ r.confidence = "high")

C30_AutomaticStatusMoves ==
  [][\A p \in SongIds, r \in ReviewReplies : ReviewApply(p, r) => StatusMoves(r)]_vars

----------------------------------------------------------------------------
(* C31: the decision log is append-only: no step of the matching,          *)
(* verification, merge or reconciliation pipeline changes or removes a row  *)
(* that is in LLMDecisionLog, also when the song a row names is merged away *)
(* or deleted: every row of the log is a row of the log after the step      *)
C31_LogAppendOnly == [][decisionLog \subseteq decisionLog']_vars

----------------------------------------------------------------------------
(* What handle_incoming_text answers to user u for text t in the present    *)
(* state: the kind of answer and the remaining count it quotes              *)
Outcomes(u, t) ==
  IF t[1] = "start" THEN {<<"welcome", 0>>}
  ELSE IF ceiling_reached(todays_count(u, today)) THEN {<<"limit", 0>>}
  ELSE IF ~validate_vote_content(t) THEN {<<"invalid_content", 0>>}
  ELSE IF spam_count(u, t) >= SPAM_MAX_IDENTICAL THEN {<<"spam", 0>>}
  ELSE IF parse_vote_input(t) = {} THEN {<<"invalid_format", 0>>}
  ELSE {IF already_voted(u, k, today) THEN <<"already", 0>>
        ELSE <<"recorded", MAX_VOTES_PER_DAY - (todays_count(u, today) + 1)>> :
          k \in smart_normalize_vote(t[2], today, songs, rawTally)}

(* a step of the handler working on a message of user v *)
HandlesFor(v) ==
  \/ \E w \in Workers, t \in VoteTexts(RaceKeys) : Begin(w, v, t)
  \/ \E w \in Workers :
       /\ wk[w].user = v
       /\ Validate(w) \/ TxnRead(w) \/ Commit(w) \/ Process(w)

(* C32: users are told apart by channel and reference: whatever the user    *)
(* with the same reference on another channel sends, the answer the         *)
(* handler gives to a user (acceptance, reason of rejection, remaining      *)
(* count) stays the same                                                    *)
C32_ChannelsTrackedSeparately ==
  [][\A u \in Users, v \in Users :
       u # v /\ u[2] = v[2] /\ HandlesFor(v) =>
         \A t \in VoteTexts(RaceKeys) : Outcomes(u, t)' = Outcomes(u, t)]_vars

----------------------------------------------------------------------------
(* C33: two different users vote on the same day, one for a verified song   *)
(* and one for a spelling variant of it that the fuzzy tier accepts: when   *)
(* both handlers have answered, both votes are stored under the key of the  *)
(* song, the key is mapped to the song, and CleanedSongTally holds the one  *)
(* row of the song and the date, with count 2                               *)
BothAnswered == users = {Voter, TypoVoter} /\ \A w \in Workers : wk[w].pc = "idle"

C33_TypoVotesCountTwo ==
  BothAnswered =>
    /\ rawVotes = SetToBag({VoteRow(Voter, 1, 1), VoteRow(TypoVoter, 1, 1)})
    /\ Has(mapping, 1) /\ mapping[1] = 1
    /\ cleanedTally = (<<1, 1>> :> 2)

----------------------------------------------------------------------------
(* C34: the grouping key is normalize(artist) + "::" + normalize(song) and  *)
(* does not depend on leading, trailing or repeated whitespace nor on the   *)
(* case of the letters: the key made for an artist and a song is the key    *)
(* of every respelling of them, and normalizing a normalized text changes   *)
(* nothing                                                                  *)
C34_KeyIgnoresSpacingAndCase ==
  /\ typed.key # NoKey => create_match_key(typed.artist, typed.song) = typed.key
  /\ \A x \in {typed.artist, typed.song} : normalize_text(normalize_text(x)) = normalize_text(x)

(* a key was made and the artist is now typed with an upper-case letter, a *)
(* run of whitespace inside and the song with whitespace around it          *)
C34_Witness ==
  /\ typed.key # NoKey
  /\ typed.artist = <<"A", " ", "tab", "a">>
  /\ typed.key = <<"a", " ", "a", ":", ":">>

----------------------------------------------------------------------------
(* the text before the first dash character and the text after it *)
BeforeDash(t) ==
  LET i == CHOOSE j \in 1 .. Len(t) : t[j].kind = "dash" /\ ~has_dash(SubSeq(t, 1, j - 1))
  IN  SubSeq(t, 1, i - 1)

AfterDash(t) ==
  LET i == Len(BeforeDash(t)) + 1
  IN  (IF t[i].n > 1 THEN <<[t[i] EXCEPT !.n = @ - 1]>> ELSE <<>>) \o SubSeq(t, i + 1, Len(t))

----------------------------------------------------------------------------
(* a step of the batch entry points of the semantic tier: the linking of    *)
(* unmatched keys and the review of pending songs                           *)
SemanticStep ==
  \/ \E k \in ReconKeys, r \in Replies : LLMMatchSelectedWith(k, r)
  \/ \E d \in Dates, k \in ReconKeys, r \in Replies : ProcessUnmatchedVotesWith(d, k, r)
  \/ \E p \in SongIds, r \in PendingReplies : ReviewPendingWith(p, r)

(* C36: every link or merge of the semantic tier targets a song that is     *)
(* verified and was in the catalog handed to the collaborator: a key that   *)
(* such a step maps or re-points is mapped to a song that was verified      *)
(* when the step began                                                      *)
C36_LinksTargetVerified ==
  [][SemanticStep =>
       \A k \in DOMAIN mapping' :
         (~Has(mapping, k) \/ mapping[k] # mapping'[k]) => mapping'[k] \in VerifiedIds(songs)]_vars

----------------------------------------------------------------------------
(* the tables after a merge of song a into song b: b is there, every key    *)
(* of either song is mapped to b, b holds the counts of both, and a merge   *)
(* of a song into itself leaves the tables as they were                     *)
TargetKept(a, b) ==
  /\ b \in DOMAIN songs'
  /\ \A k \in DOMAIN mapping : mapping[k] \in {a, b} => Has(mapping', k) /\ mapping'[k] = b
  /\ \A d \in Dates :
       CountOf(cleanedTally', b, d) =
         IF a = b THEN CountOf(cleanedTally, b, d)
         ELSE CountOf(cleanedTally, a, d) + CountOf(cleanedTally, b, d)
  /\ a = b => UNCHANGED songVars

(* C37: a merge never destroys its target: after merge_songs(source,       *)
(* target) the target exists, holds every key that was mapped to either     *)
(* song and no tally count is lost; when source and target are the same     *)
(* song nothing changes                                                     *)
C37_MergeKeepsTarget ==
  [][\A a \in SongIds, b \in SongIds : MergeSongs(a, b) => TargetKept(a, b)]_vars

----------------------------------------------------------------------------
(* C38: administrative correction keeps the raw tally consistent: after     *)
(* any sequence of admin create, edit, delete and bulk delete of RawVote    *)
(* rows every RawSongTally count is the number of RawVote rows of its date  *)
(* and key, and no RawSongTally row holds a count of 0 or less              *)
C38_AdminKeepsTally ==
  /\ \A d \in Dates, k \in ReconKeys : tally_read(d, k) = VoteCount(d, k)
  /\ \A p \in DOMAIN rawTally : rawTally[p] > 0

(* rows of a later date exist, which only the administrator enters, next   *)
(* to a vote of today, and a key of today has lost all its rows             *)
C38_Witness ==
  /\ \E k \in ReconKeys : tally_read(2, k) = 2
  /\ \E k \in ReconKeys : tally_read(1, k) = 1
  /\ \E k \in ReconKeys : ~Has(rawTally, <<1, k>>) /\ Has(mapping, k)

----------------------------------------------------------------------------
(* the votes grouped by the key they were recorded under *)
Partition(under) ==
  {{v \in DOMAIN under : under[v] = k} : k \in {under[v] : v \in DOMAIN under}}

(* the votes recorded in the order of the voters' numbers *)
RECURSIVE InOrder(_)
InOrder(st) ==
  IF DOMAIN st.left = {} THEN st
  ELSE LET v == CHOOSE u \in DOMAIN st.left : \A o \in DOMAIN st.left : u <= o
           key == CHOOSE k \in smart_normalize_vote_of(st.left[v], st.tally) : TRUE
       IN  InOrder(record_vote(st, v, key))

(* C39: the grouping of a day's votes does not depend on the order in       *)
(* which they arrived: when all votes of a set of distinct users are in,    *)
(* they are grouped as they are when they arrive in the order of the        *)
(* voters' numbers                                                          *)
C39_GroupingIgnoresOrder ==
  DOMAIN typed.left = {} =>
    Partition(typed.under) =
      Partition(InOrder([votes |-> typed.votes, left |-> typed.votes, tally |-> Empty,
                         under |-> Empty]).under)

(* C40: the verified-artist cache is invalidated on write: every call of    *)
(* match_verified_artist returns a name that the match against the table's *)
(* present rows can return                                                 *)
C40_CacheFollowsWrites ==
  [][(\E artist_norm \in Asked : MatchVerifiedArtist(artist_norm)) =>
       typed'.matched \in match_verified_artist_of(typed'.asked, build_artists_dict(artists))]_vars

====
